---- MODULE Spec2Model ----
(***************************************************************************)
(* Model of the hand-tracking ring try-on pipeline:                        *)
(*   src/src/utils/stabilization.ts      (current generation, l. 408-858)  *)
(*   src/src/components/mediapipe/HandTracker.tsx                          *)
(*   src/src/store/hands.ts                                                *)
(*   src/src/components/three/Postprocessing.tsx   (Ring, RingPresence)    *)
(*                                                                         *)
(* Numbers.  The program computes in IEEE doubles; the model computes in   *)
(* integer fixed point and rounds every quotient to the nearest integer.   *)
(*   landmark coordinates   POS units per 1.0      (1 unit = 0.0001)       *)
(*   fractions (alpha, ...) FRAC units per 1.0                             *)
(*   velocities             VEL * POS units per (1.0 / timestamp unit)     *)
(*   timestamps             integer milliseconds (performance.now())       *)
(*   filter cutoffs, beta   MILLI units per 1.0                            *)
(***************************************************************************)
EXTENDS Integers, Sequences, FiniteSets, TLC

POS   == 10 * 1000
FRAC  == 10 * 1000
VEL   == 10 * 10
MILLI == 10 * 100

\* 2 * Math.PI in units of 1/10000
TWO_PI_E4 == 62832

\* a value a TypeScript optional parameter has when it is not passed
UNDEF == 0 - 1

Abs(a) == IF a < 0 THEN 0 - a ELSE a

Min(a, b) == IF a < b THEN a ELSE b

Max(a, b) == IF a > b THEN a ELSE b

\* n / d rounded to the nearest integer (d > 0): the model's floating division
RDiv(n, d) == IF n >= 0 THEN (2 * n + d) \div (2 * d) ELSE 0 - ((2 * (0 - n) + d) \div (2 * d))

\* a * b / d rounded (d > 0, b >= 0), split so that no product leaves 32 bits
MulDiv(a, b, d) == (a \div d) * b + RDiv((a % d) * b, d)

\* clamp(value, min, max) == Math.max(min, Math.min(max, value))
clamp(value, lo, hi) == Max(lo, Min(hi, value))

\* lerp(a, b, t) == a + (b - a) * t, t a fraction
lerp(a, b, t) == a + MulDiv(b - a, t, FRAC)

Vec3(x, y, z) == [x |-> x, y |-> y, z |-> z]

ZeroVec == Vec3(0, 0, 0)

\* x*x + y*y + z*z, the square of the Math.sqrt(...) magnitudes of the code
MagSq(v) == v.x * v.x + v.y * v.y + v.z * v.z

(***************************************************************************)
(* OneEuroFilter                                                           *)
(***************************************************************************)

\* new OneEuroFilter(minCutoff, beta, dCutoff): x === null is has = FALSE
OneEuroFilter(minCutoff, beta, dCutoff) ==
    [has |-> FALSE, x |-> 0, dx |-> 0, lastTime |-> 0,
     minCutoff |-> minCutoff, beta |-> beta, dCutoff |-> dCutoff]

OneEuroReset(e) == [e EXCEPT !.has = FALSE, !.x = 0, !.dx = 0, !.lastTime = 0]

\* alpha(dt, cutoff): tau = 1/(2 pi cutoff); 1/(1 + tau/dt) = 1 - 1/(k + 1)
\* with k = 2 pi cutoff dt.  cutoff in MILLI, result in FRAC.
OneEuroAlpha(dt, cutoff) ==
    FRAC - RDiv(FRAC * MILLI, RDiv(TWO_PI_E4 * cutoff, 10 * MILLI) * dt + MILLI)

\* exponentialSmoothing(value, prev, alpha) == alpha*value + (1-alpha)*prev,
\* computed as prev + alpha*(value - prev)
exponentialSmoothing(value, prev, alpha) == prev + MulDiv(value - prev, alpha, FRAC)

\* the end of OneEuroFilter.update: store and return the filtered value
OneEuroStore(e, xFiltered, edxFiltered, timestamp) ==
    [e |-> [e EXCEPT !.x = xFiltered, !.dx = edxFiltered, !.lastTime = timestamp],
     out |-> xFiltered]

\* the cutoff adapted to the filtered velocity, and the value filtered with it
OneEuroAdapt(e, value, timestamp, dt, edxFiltered) ==
    OneEuroStore(e,
                 exponentialSmoothing(value, e.x,
                     OneEuroAlpha(dt, e.minCutoff
                                      + RDiv(e.beta * Abs(edxFiltered), VEL * POS))),
                 edxFiltered, timestamp)

\* an update that takes the timestamp of a call also when it is not after the last one
OneEuroStepStamped(e, value, timestamp) ==
    IF timestamp - e.lastTime <= 0
    THEN [e |-> [e EXCEPT !.lastTime = timestamp], out |-> e.x]
    ELSE OneEuroAdapt(e, value, timestamp, timestamp - e.lastTime,
                      exponentialSmoothing(RDiv((value - e.x) * VEL, timestamp - e.lastTime),
                                           e.dx,
                                           OneEuroAlpha(timestamp - e.lastTime, e.dCutoff)))

\* OneEuroFilter.update on a filter that holds a value (x !== null)
OneEuroStep(e, value, timestamp) ==
    IF timestamp - e.lastTime <= 0
    THEN [e |-> e, out |-> e.x]
    ELSE OneEuroAdapt(e, value, timestamp, timestamp - e.lastTime,
                      exponentialSmoothing(RDiv((value - e.x) * VEL, timestamp - e.lastTime),
                                           e.dx,
                                           OneEuroAlpha(timestamp - e.lastTime, e.dCutoff)))

\* a first call that smooths the value against the zero the filter was built with
OneEuroUpdateNoSeed(e, value, timestamp) ==
    IF ~e.has
    THEN [e |-> [e EXCEPT !.has = TRUE, !.x = value \div 2, !.lastTime = timestamp],
          out |-> value \div 2]
    ELSE OneEuroStep(e, value, timestamp)

\* OneEuroFilter.update(value, timestamp) -> [e: the filter after, out: the result]
OneEuroUpdate(e, value, timestamp) ==
    IF ~e.has
    THEN [e |-> [e EXCEPT !.has = TRUE, !.x = value, !.lastTime = timestamp],
          out |-> value]
    ELSE OneEuroStep(e, value, timestamp)

\* OneEuroFilter.configure(minCutoff?, beta?, dCutoff?)
OneEuroConfigure(e, minCutoff, beta, dCutoff) ==
    [e EXCEPT !.minCutoff = IF minCutoff # UNDEF THEN minCutoff ELSE @,
              !.beta      = IF beta # UNDEF THEN beta ELSE @,
              !.dCutoff   = IF dCutoff # UNDEF THEN dCutoff ELSE @]

(***************************************************************************)
(* StabilizationFilter                                                     *)
(***************************************************************************)

VELOCITY_HISTORY_SIZE == 5

\* new StabilizationFilter(p.deadZone, ...): prev === null is hasPrev = FALSE
StabilizationFilter(p) ==
    [hasPrev |-> FALSE, prev |-> ZeroVec,
     velocity |-> ZeroVec, acceleration |-> ZeroVec, velocityHistory |-> << >>,
     oneEuroX |-> OneEuroFilter(p.oneEuroMinCutoff, p.oneEuroBeta, p.oneEuroDCutoff),
     oneEuroY |-> OneEuroFilter(p.oneEuroMinCutoff, p.oneEuroBeta, p.oneEuroDCutoff),
     oneEuroZ |-> OneEuroFilter(p.oneEuroMinCutoff, p.oneEuroBeta, p.oneEuroDCutoff),
     lastTimestamp |-> 0, stableFrames |-> 0,
     deadZone |-> p.deadZone, velocitySmoothing |-> p.velocitySmoothing,
     jitterThreshold |-> p.jitterThreshold, predictionStrength |-> p.predictionStrength]

FilterReset(f) ==
    [f EXCEPT !.hasPrev = FALSE, !.prev = ZeroVec,
              !.velocity = ZeroVec, !.acceleration = ZeroVec, !.velocityHistory = << >>,
              !.oneEuroX = OneEuroReset(@), !.oneEuroY = OneEuroReset(@),
              !.oneEuroZ = OneEuroReset(@),
              !.lastTimestamp = 0, !.stableFrames = 0]

\* the filter with its three per-axis filters after their updates, and their outputs
PackOneEuro(f, rx, ry, rz) ==
    [f |-> [f EXCEPT !.oneEuroX = rx.e, !.oneEuroY = ry.e, !.oneEuroZ = rz.e],
     out |-> Vec3(rx.out, ry.out, rz.out)]

\* the three per-axis filters run on one point: [f: the filter after, out: the point]
FilterOneEuro(f, point, timestamp) ==
    PackOneEuro(f, OneEuroUpdate(f.oneEuroX, point.x, timestamp),
                   OneEuroUpdate(f.oneEuroY, point.y, timestamp),
                   OneEuroUpdate(f.oneEuroZ, point.z, timestamp))

VecDiv(v, d) == Vec3(RDiv(v.x, d), RDiv(v.y, d), RDiv(v.z, d))

VecSub(a, b) == Vec3(a.x - b.x, a.y - b.y, a.z - b.z)

VecLerp(a, b, t) == Vec3(lerp(a.x, b.x, t), lerp(a.y, b.y, t), lerp(a.z, b.z, t))

VecAdd(a, b) == Vec3(a.x + b.x, a.y + b.y, a.z + b.z)

RECURSIVE SumVec(_)
SumVec(s) == IF s = << >> THEN ZeroVec ELSE VecAdd(Head(s), SumVec(Tail(s)))

\* velocityHistory.push(v), then shift() when longer than VELOCITY_HISTORY_SIZE
PushVelocity(history, v) ==
    IF Len(history) + 1 > VELOCITY_HISTORY_SIZE
    THEN Tail(Append(history, v))
    ELSE Append(history, v)

\* the average of the velocity history
AvgVelocity(history) == VecDiv(SumVec(history), Len(history))

\* history, acceleration and velocity updated with the instantaneous velocity
FilterTrack(f, currentVelocity, dt) ==
    [f EXCEPT !.stableFrames = 0,
              !.velocityHistory = PushVelocity(@, currentVelocity),
              !.acceleration = VecDiv(VecSub(currentVelocity, f.velocity), dt),
              !.velocity = VecLerp(@, currentVelocity, f.velocitySmoothing)]

\* the largest absolute component of a vector
MaxAbs(v) == Max(Abs(v.x), Max(Abs(v.y), Abs(v.z)))

\* velocityMagnitude > 0.001, in VEL * POS units: one component alone is enough,
\* otherwise the squares are compared
IsFast(velocity) ==
    \/ MaxAbs(velocity) > (VEL * POS) \div 1000
    \/ MagSq(velocity) > ((VEL * POS) \div 1000) * ((VEL * POS) \div 1000)

\* one coordinate of the prediction; pt is predictionTime in 1/100 of a timestamp unit
Predict1(c, v, a, pt) ==
    c + MulDiv(v, pt, VEL * 100) + MulDiv(MulDiv(a, pt, 100), pt, 2 * VEL * 100)

\* the prediction from the average velocity and the acceleration, clamped
Prediction(point, avg, acc, pt) ==
    Vec3(clamp(Predict1(point.x, avg.x, acc.x, pt), 0, POS),
         clamp(Predict1(point.y, avg.y, acc.y, pt), 0, POS),
         clamp(Predict1(point.z, avg.z, acc.z, pt), 0 - POS, POS))

\* the point handed to the one-euro filters: the raw point for a jitter or a slow
\* movement, the clamped prediction for a fast one
MoveTarget(f, point, dt, movementSq) ==
    IF movementSq >= f.jitterThreshold * f.jitterThreshold
       /\ f.predictionStrength > 0 /\ IsFast(f.velocity)
    THEN Prediction(point, AvgVelocity(f.velocityHistory), f.acceleration,
                    RDiv(dt * f.predictionStrength, FRAC \div 100))
    ELSE point

\* this.prev = result; this.lastTimestamp = timestamp; return result
StorePrev(r, timestamp) ==
    [f |-> [r.f EXCEPT !.prev = r.out, !.lastTimestamp = timestamp], out |-> r.out]

\* the tracked filter f1 filters the point it targets and stores the result
FilterFinish(f1, point, timestamp, dt, movementSq) ==
    StorePrev(FilterOneEuro(f1, MoveTarget(f1, point, dt, movementSq), timestamp),
              timestamp)

\* the branch of update taken when the movement is at least the dead zone
FilterMove(f, point, timestamp, dt, rawDelta, movementSq) ==
    FilterFinish(FilterTrack(f, VecDiv(Vec3(rawDelta.x * VEL, rawDelta.y * VEL,
                                            rawDelta.z * VEL), dt), dt),
                 point, timestamp, dt, movementSq)

\* the dead-zone test and the two branches after it
FilterBranch(f, point, timestamp, dt, rawDelta) ==
    IF MagSq(rawDelta) < f.deadZone * f.deadZone
    THEN FilterOneEuro([f EXCEPT !.stableFrames = @ + 1, !.lastTimestamp = timestamp],
                       point, timestamp)
    ELSE FilterMove(f, point, timestamp, dt, rawDelta, MagSq(rawDelta))

\* StabilizationFilter.update on a filter that holds a previous point (prev !== null).
\* dt <= EPSILON (1e-9) is dt <= 0 on integer timestamps.
FilterStep(f, point, timestamp) ==
    IF timestamp - f.lastTimestamp <= 0
    THEN [f |-> f, out |-> f.prev]
    ELSE FilterBranch(f, point, timestamp, timestamp - f.lastTimestamp,
                      VecSub(point, f.prev))

\* StabilizationFilter.update(point, timestamp) -> [f: the filter after, out: the result]
FilterUpdate(f, point, timestamp) ==
    IF ~f.hasPrev
    THEN [f |-> [f EXCEPT !.hasPrev = TRUE, !.prev = point, !.lastTimestamp = timestamp],
          out |-> point]
    ELSE FilterStep(f, point, timestamp)

\* StabilizationFilter.configure(params): a field that is UNDEF is not supplied
FilterConfigure(f, params) ==
    LET g == [f EXCEPT
                !.deadZone = IF params.deadZone # UNDEF THEN params.deadZone ELSE @,
                !.velocitySmoothing =
                    IF params.velocitySmoothing # UNDEF THEN params.velocitySmoothing ELSE @,
                !.jitterThreshold =
                    IF params.jitterThreshold # UNDEF THEN params.jitterThreshold ELSE @,
                !.predictionStrength =
                    IF params.predictionStrength # UNDEF THEN params.predictionStrength ELSE @]
    IN  IF params.oneEuroMinCutoff # UNDEF \/ params.oneEuroBeta # UNDEF
           \/ params.oneEuroDCutoff # UNDEF
        THEN [g EXCEPT
                !.oneEuroX = OneEuroConfigure(@, params.oneEuroMinCutoff,
                                              params.oneEuroBeta, params.oneEuroDCutoff),
                !.oneEuroY = OneEuroConfigure(@, params.oneEuroMinCutoff,
                                              params.oneEuroBeta, params.oneEuroDCutoff),
                !.oneEuroZ = OneEuroConfigure(@, params.oneEuroMinCutoff,
                                              params.oneEuroBeta, params.oneEuroDCutoff)]
        ELSE g

(***************************************************************************)
(* Hands: the detector's landmark arrays the model feeds the program.      *)
(* An array of n landmarks is a function on 0..n-1.                        *)
(***************************************************************************)

NUM_LANDMARKS == 21

Length(a) == Cardinality(DOMAIN a)

\* A hand of n landmarks laid out as MediaPipe numbers them: 0 the wrist, then
\* four joints (MCP, PIP, DIP, tip) of each of thumb, index, middle, ring, pinky.
\* hp.sx, hp.sy move the whole hand; hp.side (1 or -1) mirrors the fingers about
\* the wrist; the MCPs of index and pinky stay at the wrist's depth, the other
\* joints go from depth hp.zb (MCP) to depth hp.zt (tip).
HandOf(hp, n) ==
    [i \in 0..(n - 1) |->
        IF i = 0 THEN Vec3(5000 + hp.sx, 8000 + hp.sy, 0)
        ELSE LET f == (i - 1) \div 4
                 j == (i - 1) % 4
             IN  Vec3(5000 + hp.sx + hp.side * (f - 2) * 600,
                      6000 + hp.sy - 700 * j,
                      IF i \in {5, 17} THEN 0
                      ELSE hp.zb + RDiv((hp.zt - hp.zb) * j, 3))]

Hand(hp) == HandOf(hp, NUM_LANDMARKS)

HandParams(sx, sy, side, zb, zt) == [sx |-> sx, sy |-> sy, side |-> side, zb |-> zb, zt |-> zt]

(***************************************************************************)
(* LandmarkStabilizer                                                      *)
(***************************************************************************)

Modes == {"responsive", "balanced", "stable"}

\* the mode argument of configure when it is not passed
NoMode == "undefined"

\* the parameters of a filter, in the order of the StabilizationFilter constructor
Params(dz, vs, jt, ps, minCutoff, beta, dCutoff) ==
    [deadZone |-> dz, velocitySmoothing |-> vs, jitterThreshold |-> jt,
     predictionStrength |-> ps, oneEuroMinCutoff |-> minCutoff, oneEuroBeta |-> beta,
     oneEuroDCutoff |-> dCutoff]

\* customParams undefined, or an object that supplies no field
NoParams == Params(UNDEF, UNDEF, UNDEF, UNDEF, UNDEF, UNDEF, UNDEF)

\* presets of initializeFilters, in model units
presets ==
    [responsive |-> Params(2, 1000, 10, 4000, 4000, 30, 2000),
     balanced   |-> Params(3, 1500, 15, 3500, 3000, 20, 2000),
     stable     |-> Params(6, 2500, 20, 2500, 2000, 15, 1500)]

\* { ...a, ...b }: the fields b supplies override those of a
Merge(a, b) == [k \in DOMAIN a |-> IF b[k] # UNDEF THEN b[k] ELSE a[k]]

\* initializeFilters(): 21 new filters from the preset of the mode and customParams
initializeFilters(s) ==
    LET params == Merge(presets[s.mode], s.customParams)
    IN  [s EXCEPT !.filters = [i \in 0..(NUM_LANDMARKS - 1) |-> StabilizationFilter(params)]]

\* new LandmarkStabilizer(mode, customParams)
LandmarkStabilizer(mode, customParams) ==
    initializeFilters([filters |-> << >>, mode |-> mode, customParams |-> customParams])

\* LandmarkStabilizer.reset()
StabilizerReset(s) == [s EXCEPT !.filters = [i \in DOMAIN @ |-> FilterReset(@[i])]]

\* the stabilizer and the landmarks after the per-landmark updates r
MapResult(s, r) ==
    [threw |-> FALSE,
     s |-> [s EXCEPT !.filters = [i \in DOMAIN @ |-> IF i \in DOMAIN r THEN r[i].f ELSE @[i]]],
     out |-> [i \in DOMAIN r |-> r[i].out]]

\* an apply that filters the landmarks it has a filter for, whatever their number
StabilizerApplyUnchecked(s, landmarks, timestamp) ==
    MapResult(s, [i \in 0..(Min(Length(landmarks), NUM_LANDMARKS) - 1) |->
                     FilterUpdate(s.filters[i], landmarks[i], timestamp)])

\* LandmarkStabilizer.apply(landmarks, timestamp) -> [threw, s: the stabilizer after,
\* out: the landmarks returned]
StabilizerApply(s, landmarks, timestamp) ==
    IF Length(landmarks) # NUM_LANDMARKS
    THEN [threw |-> TRUE, s |-> s, out |-> << >>]
    ELSE MapResult(s, [i \in DOMAIN landmarks |->
                          FilterUpdate(s.filters[i], landmarks[i], timestamp)])

\* a configure that rebuilds the filters on every call that names a mode
StabilizerConfigureAlwaysInit(s, mode, customParams) ==
    IF mode # NoMode
    THEN initializeFilters([s EXCEPT !.mode = mode, !.customParams = customParams])
    ELSE IF customParams # NoParams
         THEN [s EXCEPT !.customParams = Merge(@, customParams),
                        !.filters = [i \in DOMAIN @ |-> FilterConfigure(@[i], customParams)]]
         ELSE s

\* LandmarkStabilizer.configure(mode?, customParams?); customParams NoParams is
\* customParams undefined
StabilizerConfigure(s, mode, customParams) ==
    IF mode # NoMode /\ mode # s.mode
    THEN initializeFilters([s EXCEPT !.mode = mode, !.customParams = customParams])
    ELSE IF customParams # NoParams
         THEN [s EXCEPT !.customParams = Merge(@, customParams),
                        !.filters = [i \in DOMAIN @ |-> FilterConfigure(@[i], customParams)]]
         ELSE s

(***************************************************************************)
(* EmaValue (scalar exponential moving average)                            *)
(***************************************************************************)

\* new EmaValue(alpha): value === null is has = FALSE; alpha in FRAC
EmaValue(alpha) == [has |-> FALSE, value |-> 0, alpha |-> alpha]

\* EmaValue.reset()
EmaReset(e) == [e EXCEPT !.has = FALSE, !.value = 0]

\* the value EmaValue.update(newValue) stores and returns
EmaNext(e, newValue) ==
    IF ~e.has THEN newValue ELSE RDiv(e.alpha * newValue + (FRAC - e.alpha) * e.value, FRAC)

\* EmaValue.update(newValue): the filter after; its value is what update returns
EmaUpdate(e, newValue) == [e EXCEPT !.has = TRUE, !.value = EmaNext(e, newValue)]

(***************************************************************************)
(* Orientation: detectHandOrientation and computePalmScore.  Scores are    *)
(* integers in units of 1/SCORE.                                           *)
(***************************************************************************)

SCORE == 100 * 1000

\* the floor of the square root of n, searched between lo and hi
RECURSIVE IsqrtIn(_, _, _)
IsqrtIn(n, lo, hi) ==
    IF lo >= hi THEN lo
    ELSE IF ((lo + hi + 1) \div 2) * ((lo + hi + 1) \div 2) <= n
         THEN IsqrtIn(n, (lo + hi + 1) \div 2, hi)
         ELSE IsqrtIn(n, lo, (lo + hi + 1) \div 2 - 1)

Isqrt(n) == IsqrtIn(n, 0, 46340)

\* Math.tanh(x), x and the result in 1/1000, by the Pade approximant
\* x (27 + x^2) / (27 + 9 x^2), which is within 0.01 of tanh and reaches 1 at x = 3
Tanh1000(x) ==
    IF x >= 3000 THEN 1000
    ELSE IF x <= 0 - 3000 THEN 0 - 1000
    ELSE RDiv(x * (27000 + RDiv(x * x, 1000)), 27000 + 9 * RDiv(x * x, 1000))

\* Math.tanh on a score
Tanh(s) == Tanh1000(RDiv(s, SCORE \div 1000)) * (SCORE \div 1000)

\* the cross product of the wrist->index-base and wrist->pinky-base vectors, each
\* component divided by POS so that the squares below stay in range
CrossOf(vIndex, vPinky) ==
    Vec3(RDiv(vIndex.y * vPinky.z - vIndex.z * vPinky.y, POS),
         RDiv(vIndex.z * vPinky.x - vIndex.x * vPinky.z, POS),
         RDiv(vIndex.x * vPinky.y - vIndex.y * vPinky.x, POS))

\* n.z of the normalized normal, in 1/1000: nz / (Math.hypot(nx, ny, nz) || 1)
NormalZ(n) == IF MagSq(n) = 0 THEN n.z * 1000 ELSE RDiv(n.z * 1000, Isqrt(MagSq(n)))

\* average z of four landmarks
AvgZ(lms, a, b, c, d) == RDiv(lms[a].z + lms[b].z + lms[c].z + lms[d].z, 4)

\* normalTowardCamera * 0.5 + baseCloserScore * 0.3 + tipsFartherScore * 0.2
WeightedOf(nz1000, wristZ, avgBaseZ, avgTipZ) ==
    (0 - nz1000) * 50 + (0 - (avgBaseZ - wristZ)) * 3 + (avgTipZ - avgBaseZ) * 2

\* the weighted sum both functions compute from the landmarks
WeightedSum(lms) ==
    WeightedOf(NormalZ(CrossOf(VecSub(lms[5], lms[0]), VecSub(lms[17], lms[0]))),
               lms[0].z, AvgZ(lms, 5, 9, 13, 17), AvgZ(lms, 8, 12, 16, 20))

\* if (handedness === 'Left') score = -score
Handed(score, handedness) == IF handedness = "Left" THEN 0 - score ELSE score

PALM_THRESHOLD == 60000

BACK_THRESHOLD == 0 - PALM_THRESHOLD

\* the hysteresis of detectHandOrientation on its score
Classify(palmScore, prev) ==
    IF prev = "palm" THEN (IF palmScore < BACK_THRESHOLD THEN "back" ELSE "palm")
    ELSE IF prev = "back" THEN (IF palmScore > PALM_THRESHOLD THEN "palm" ELSE "back")
    ELSE (IF palmScore >= 0 THEN "palm" ELSE "back")

\* detectHandOrientation(lms, prev, handedness): "palm", "back" or "null"
detectHandOrientation(lms, prev, handedness) ==
    IF Length(lms) < NUM_LANDMARKS THEN "null"
    ELSE Classify(Handed(WeightedSum(lms), handedness), prev)

\* computePalmScore(lms, handedness)
computePalmScore(lms, handedness) ==
    IF Length(lms) < NUM_LANDMARKS THEN 0
    ELSE Handed(Tanh(WeightedSum(lms)), handedness)

(***************************************************************************)
(* The hand store (zustand)                                                *)
(***************************************************************************)

\* null landmarks are the empty array; a null number is UNDEF; a null label "null"
NoLandmarks == << >>

NoScore == [has |-> FALSE, value |-> 0]

InitialStore ==
    [landmarks |-> NoLandmarks, landmarksStabilized |-> NoLandmarks,
     landmarksRaw |-> NoLandmarks, landmarksUpdatedAt |-> UNDEF, landmarkBlend |-> 0,
     handedness |-> "null", orientation |-> "null", palmScore |-> NoScore]

\* r + (s - r) * blend on one landmark
BlendPoint(r, s, blend) == VecLerp(r, s, blend)

\* the blended landmarks of setLandmarks and setLandmarkBlend
Blended(stabilized, raw, blend) ==
    IF stabilized = NoLandmarks /\ raw = NoLandmarks THEN NoLandmarks
    ELSE IF blend <= 0 \/ stabilized = NoLandmarks
         THEN (IF raw # NoLandmarks THEN raw ELSE stabilized)
    ELSE IF blend >= FRAC \/ raw = NoLandmarks
         THEN (IF stabilized # NoLandmarks THEN stabilized ELSE raw)
    ELSE [i \in DOMAIN stabilized |->
             BlendPoint(IF i \in DOMAIN raw THEN raw[i] ELSE stabilized[i],
                        stabilized[i], blend)]

\* setLandmarks(landmarks, handedness, raw, timestampMs)
setLandmarks(st, landmarks, handedness, raw, timestampMs) ==
    [st EXCEPT !.landmarks = Blended(landmarks, raw, st.landmarkBlend),
               !.landmarksStabilized = landmarks,
               !.landmarksRaw = raw,
               !.landmarksUpdatedAt = IF landmarks # NoLandmarks \/ raw # NoLandmarks
                                      THEN timestampMs ELSE UNDEF,
               !.handedness = handedness]

\* a setLandmarkBlend that stores the factor and leaves the landmarks as they were
setLandmarkBlendFactorOnly(st, landmarkBlend) ==
    [st EXCEPT !.landmarkBlend = Min(FRAC, Max(0, landmarkBlend))]

\* setLandmarkBlend(landmarkBlend)
setLandmarkBlend(st, landmarkBlend) ==
    [st EXCEPT !.landmarkBlend = Min(FRAC, Max(0, landmarkBlend)),
               !.landmarks = Blended(st.landmarksStabilized, st.landmarksRaw,
                                     Min(FRAC, Max(0, landmarkBlend)))]

setOrientation(st, orientation) == [st EXCEPT !.orientation = orientation]

setPalmScore(st, palmScore) == [st EXCEPT !.palmScore = palmScore]

(***************************************************************************)
(* Ring: numeric helpers.  World lengths are in 1/W of a scene unit,       *)
(* angles in 1/RAD of a radian, scales and alphas in 1/FRAC, normalized    *)
(* screen lengths in 1/POS, frame deltas in milliseconds.                  *)
(***************************************************************************)

W == 1000

RAD == 10000

PI_RAD == 31416

\* a % b of JavaScript: the remainder has the sign of the dividend
JsMod(a, b) == IF a >= 0 THEN a % b ELSE 0 - ((0 - a) % b)

\* Math.hypot(dx, dy) and Math.sqrt(dx*dx + dy*dy), rounded down
Hypot2(dx, dy) == Isqrt(dx * dx + dy * dy)

\* distance3(a, b)
distance3(a, b) == Isqrt(MagSq(VecSub(a, b)))

\* exp(-y) for 0 <= y <= FRAC/2 by the Pade approximant
\* (1 - y/2 + y^2/12) / (1 + y/2 + y^2/12); q is y^2/12
ExpSmallOf(y, q) == RDiv((FRAC - y \div 2 + q) * FRAC, FRAC + y \div 2 + q)

ExpSmall(y) == ExpSmallOf(y, RDiv(y * y, 12 * FRAC))

SqFrac(a) == RDiv(a * a, FRAC)

\* Math.exp(-x), x and the result in 1/FRAC: exp(-x/16) raised to the 16th power
ExpNeg(x) == SqFrac(SqFrac(SqFrac(SqFrac(ExpSmall(x \div 16)))))

\* 1 - Math.exp(-rate * delta) for a rate in 1/FRAC per second and delta in ms
ExpAlpha(rate, delta) == FRAC - ExpNeg(MulDiv(rate, delta, MILLI))

\* Math.pow(m, 0.9) for m in 0..FRAC: the values at the tenths, interpolated
Pow09Knots == <<0, 1259, 2349, 3384, 4384, 5359, 6314, 7254, 8181, 9095, 10000>>

Pow09(m) ==
    IF m >= FRAC THEN FRAC
    ELSE Pow09Knots[m \div 1000 + 1]
         + RDiv((Pow09Knots[m \div 1000 + 2] - Pow09Knots[m \div 1000 + 1]) * (m % 1000),
                1000)

\* atan(t) for t in 0..FRAC, in 1/RAD: t (pi/4 + 0.273 (1 - t)), within 0.004 rad
AtanUnit(t) == RDiv(t * (PI_RAD \div 4 + RDiv(2730 * (FRAC - t), FRAC)), FRAC)

\* atan2 on magnitudes ay, ax >= 0, not both zero: an angle in 0..pi/2
AtanQuadrant(ay, ax) ==
    IF ay <= ax THEN AtanUnit(RDiv(ay * FRAC, ax))
    ELSE PI_RAD \div 2 - AtanUnit(RDiv(ax * FRAC, ay))

\* Math.atan2(y, x) in 1/RAD
Atan2(y, x) ==
    IF x = 0 /\ y = 0 THEN 0
    ELSE IF x >= 0
         THEN (IF y >= 0 THEN AtanQuadrant(y, x) ELSE 0 - AtanQuadrant(0 - y, x))
         ELSE (IF y >= 0 THEN PI_RAD - AtanQuadrant(y, 0 - x)
               ELSE 0 - (PI_RAD - AtanQuadrant(0 - y, 0 - x)))

\* Math.asin(v) for v in -FRAC..FRAC
Asin(v) == Atan2(v, Isqrt(FRAC * FRAC - v * v))

\* THREE.MathUtils.degToRad(d) for d in 1/10 of a degree
degToRad(d) == RDiv(d * PI_RAD, 1800)

\* Vector3.normalize(): v / (length || 1), the result in 1/FRAC
NormalizeBy(v, len) ==
    IF len = 0 THEN ZeroVec
    ELSE Vec3(RDiv(v.x * FRAC, len), RDiv(v.y * FRAC, len), RDiv(v.z * FRAC, len))

Normalize(v) == NormalizeBy(v, Isqrt(MagSq(v)))

VecScale(v, k, d) == Vec3(MulDiv(v.x, k, d), MulDiv(v.y, k, d), MulDiv(v.z, k, d))

VecNeg(v) == Vec3(0 - v.x, 0 - v.y, 0 - v.z)

\* a x b for vectors in 1/FRAC
Cross(a, b) ==
    Vec3(RDiv(a.y * b.z - a.z * b.y, FRAC), RDiv(a.z * b.x - a.x * b.z, FRAC),
         RDiv(a.x * b.y - a.y * b.x, FRAC))

(***************************************************************************)
(* Ring: constants, controls and helper functions                          *)
(***************************************************************************)

FINGER_CHAINS == << <<5, 6, 7, 8>>, <<9, 10, 11, 12>>, <<13, 14, 15, 16>>, <<17, 18, 19, 20>> >>

\* MICRO_JITTER_CONFIG: thresholds in 1/POS, strengths in 1/FRAC
MICRO_JITTER_CONFIG ==
    [position |-> [threshold |-> 25, strength |-> 4500],
     scale    |-> [threshold |-> 30, strength |-> 4000],
     rotation |-> [threshold |-> 20, strength |-> 3500]]

MIN_ADAPTIVE_ALPHA == 10

SMOOTH_EPS == 10

\* the responses of the smoothed quantities, per second
RingResponse ==
    [scale |-> 220, width |-> 250, position |-> 200, orientation |-> 200,
     tilt |-> 150, depth |-> 180, closure |-> 120]

BASE_DISTANCE == 30 * W

DEPTH_RANGE == 65

SCALE_MIN == 500

SCALE_MAX == 35000

DEPTH_SCALE_NEAR_DISTANCE == Max(5 * W, BASE_DISTANCE - RDiv(DEPTH_RANGE * W * 45, 100))

DEPTH_SCALE_FAR_DISTANCE == BASE_DISTANCE + RDiv(DEPTH_RANGE * W * 55, 100)

DEPTH_SCALE_NEAR == 13500

DEPTH_SCALE_FAR == 7500

FINGER_DIAMETER_TO_SEGMENT_RATIO == 4000

SNUG_FIT == 7200

\* MOTION_ATTENUATION_THRESHOLD / _POWER / _MIN, WORLD_SPEED_ATTENUATION_GAIN / _POWER
MotionAttenuation ==
    [threshold |-> 50, power |-> 5000, min |-> 5000, worldGain |-> 200, worldPower |-> 5000]

DEFAULT_BIAS_TOWARD_13 == 6000

DEFAULT_MODEL_INNER_DIAMETER_RATIO == 7800

\* the 'Ring Fit' and 'Ring Orientation' controls at their defaults: fractions in
\* 1/FRAC, screen lengths in 1/POS, degrees in 1/10, world lengths in 1/W
RingControls ==
    [anchorToward14 |-> 3000, alongFinger |-> 500, positionSmoothing |-> 0,
     motionLookaheadMs |-> 16, jitterBlend |-> 1500, jitterVelocityCutoff |-> 100,
     jitterDeadzone |-> 8,
     rotationOffsetX |-> 250, rotationOffsetY |-> 0, rotationOffsetZ |-> 0,
     closureOffsetZ |-> 800, positionOffsetZ |-> 0 - 5400, positionOffsetY |-> 0,
     rotationOffsetPositionY |-> 2500, closureOffsetPositionZ |-> 1500,
     closureScaleBoost |-> 5000]

\* the size of the ring model's bounding box, set by the effect that measures it
BaseDiameter == 1 * W

\* the camera of the Canvas: position [129, 82.1, 129], fov 45, looking at the origin
CameraPosition == Vec3(129 * W, 82100, 129 * W)

\* Math.tan(fovRad / 2) for fov = 45
TAN_HALF_FOV == 4142

\* the canvas the scene is drawn on, and the aspect of the video, 640 / 480
CanvasSize == [width |-> 360, height |-> 480]

VideoAspect == [n |-> 4, d |-> 3]

\* the camera's axes in the world: forward, right and up, in 1/FRAC
CameraForward == Normalize(VecNeg(VecDiv(CameraPosition, 100)))

CameraRight == Normalize(Vec3(0 - CameraForward.z, 0, CameraForward.x))

CameraUp == Cross(CameraRight, CameraForward)

\* applyMicroJitterDamping(alpha, motion, threshold, strength)
DampBy(alpha, normalized, strength) ==
    clamp(RDiv(alpha * (FRAC - RDiv(strength * SqFrac(normalized), FRAC)), FRAC),
          MIN_ADAPTIVE_ALPHA, FRAC)

applyMicroJitterDamping(alpha, motion, threshold, strength) ==
    IF motion <= 0 \/ motion >= threshold THEN Min(alpha, FRAC)
    ELSE DampBy(alpha, FRAC - RDiv(motion * FRAC, threshold), strength)

\* the end of computeSmoothingAlpha: the alpha boosted by the attenuation
BoostAlpha(baseAlpha, attenuationBoost) ==
    IF attenuationBoost <= SMOOTH_EPS THEN baseAlpha
    ELSE lerp(baseAlpha, FRAC, RDiv(attenuationBoost * 8, 10))

\* computeSmoothingAlpha(response, delta, smoothingStrength, baseStrength, attenuation)
AlphaOf(response, delta, combinedStrength, attenuation) ==
    IF combinedStrength <= SMOOTH_EPS THEN FRAC
    ELSE BoostAlpha(ExpAlpha(response * clamp(combinedStrength, SMOOTH_EPS, FRAC), delta),
                    clamp(FRAC - attenuation, 0, FRAC))

computeSmoothingAlpha(response, delta, smoothingStrength, baseStrength, attenuation) ==
    AlphaOf(response, delta, Max(baseStrength, clamp(smoothingStrength, 0, FRAC)),
            attenuation)

\* computeAlpha(response, baseStrength, attenuation) of the frame
computeAlpha(response, delta, baseStrength, attenuation) ==
    computeSmoothingAlpha(response, delta, RingControls.positionSmoothing, baseStrength,
                          attenuation)

\* the curl of one finger from its length and the distance from MCP to tip
CurlOf(fingerLength, span) ==
    IF fingerLength <= 1 THEN [n |-> 0, curl |-> 0]
    ELSE [n |-> 1, curl |-> clamp(FRAC - RDiv(span * FRAC, fingerLength), 0, FRAC)]

FingerCurl(lms, chain) ==
    CurlOf(distance3(lms[chain[1]], lms[chain[2]]) + distance3(lms[chain[2]], lms[chain[3]])
           + distance3(lms[chain[3]], lms[chain[4]]),
           distance3(lms[chain[1]], lms[chain[4]]))

CurlMean(a, b, c, d) ==
    IF a.n + b.n + c.n + d.n = 0 THEN 0
    ELSE RDiv(a.curl + b.curl + c.curl + d.curl, a.n + b.n + c.n + d.n)

\* calculateHandClosure(landmarks)
calculateHandClosure(lms) ==
    CurlMean(FingerCurl(lms, FINGER_CHAINS[1]), FingerCurl(lms, FINGER_CHAINS[2]),
             FingerCurl(lms, FINGER_CHAINS[3]), FingerCurl(lms, FINGER_CHAINS[4]))

Vec2(x, y) == [x |-> x, y |-> y]

\* one coordinate of calculateAnchorPoint
Anchor1(c13, c14, bias13, alongFinger) ==
    RDiv(c13 * bias13 + c14 * (FRAC - bias13), FRAC)
    + (IF alongFinger # 0 THEN RDiv((c14 - c13) * alongFinger, FRAC) ELSE 0)

\* calculateAnchorPoint(p13, p14, bias13, alongFinger)
calculateAnchorPoint(p13, p14, bias13, alongFinger) ==
    Vec2(Anchor1(p13.x, p14.x, bias13, alongFinger),
         Anchor1(p13.y, p14.y, bias13, alongFinger))

\* calculateMotionAttenuation(rawDelta, threshold, power, min)
\* a variant that never relaxes the smoothing
calculateMotionAttenuationNone(rawDelta, threshold, power, min) == FRAC

calculateMotionAttenuation(rawDelta, threshold, power, min) ==
    IF rawDelta <= 0 THEN FRAC
    ELSE Max(min, FRAC - RDiv(Pow09(clamp(RDiv(rawDelta * FRAC, threshold), 0, FRAC))
                              * power, FRAC))

\* softness * softness * (3 - 2 * softness)
Smoothstep(s) == RDiv(SqFrac(s) * (3 * FRAC - 2 * s), FRAC)

\* applyDeadzone once the distance diff from the previous anchor is known
DeadzoneBy(anchor, prev, deadzone, diff) ==
    IF diff < deadzone
    THEN Vec2(lerp(prev.x, anchor.x, Smoothstep(clamp(RDiv(diff * FRAC, deadzone), 0, FRAC))),
              lerp(prev.y, anchor.y, Smoothstep(clamp(RDiv(diff * FRAC, deadzone), 0, FRAC))))
    ELSE IF diff < deadzone * 3
    THEN Vec2(lerp(prev.x, anchor.x, clamp(RDiv((diff - deadzone) * FRAC, deadzone * 2), 0, FRAC)),
              lerp(prev.y, anchor.y, clamp(RDiv((diff - deadzone) * FRAC, deadzone * 2), 0, FRAC)))
    ELSE anchor

\* applyDeadzone(anchorX, anchorY, prevX, prevY, deadzone)
applyDeadzone(anchor, prev, deadzone) ==
    IF deadzone <= 0 THEN anchor
    ELSE DeadzoneBy(anchor, prev, deadzone, Hypot2(anchor.x - prev.x, anchor.y - prev.y))

\* the palm score in 1/FRAC, or what the label stands for when there is none
NormalizedPalmScore(orientation, palmScore) ==
    IF palmScore.has THEN clamp(RDiv(palmScore.value, SCORE \div FRAC), 0 - FRAC, FRAC)
    ELSE IF orientation = "back" THEN 0 - FRAC
    ELSE IF orientation = "palm" THEN FRAC
    ELSE 0

\* the target of the label alone
LabelTransition(orientation, scoreTransition) ==
    IF orientation = "back" THEN FRAC ELSE IF orientation = "palm" THEN 0 ELSE scoreTransition

\* the target moved toward the score's by the score's weight
WeightedTransition(orientation, target, blendedScoreTarget) ==
    IF orientation = "back" THEN Min(target, blendedScoreTarget)
    ELSE IF orientation = "palm" THEN Max(target, blendedScoreTarget)
    ELSE blendedScoreTarget

TransitionOf(orientation, scoreTransition, scoreWeight) ==
    IF scoreWeight > 0
    THEN WeightedTransition(orientation, LabelTransition(orientation, scoreTransition),
                            lerp(LabelTransition(orientation, scoreTransition),
                                 scoreTransition, scoreWeight))
    ELSE LabelTransition(orientation, scoreTransition)

\* calculateOrientationTransition(orientation, palmScore, scoreEps).targetTransition
TransitionFor(orientation, hasScore, normalized, scoreEps) ==
    TransitionOf(orientation, clamp(RDiv(FRAC - normalized, 2), 0, FRAC),
                 IF hasScore
                 THEN clamp(RDiv((Abs(normalized) - scoreEps) * FRAC, Max(FRAC - scoreEps, 1)),
                            0, FRAC)
                 ELSE 0)

calculateOrientationTransition(orientation, palmScore, scoreEps) ==
    TransitionFor(orientation, palmScore.has, NormalizedPalmScore(orientation, palmScore),
                  scoreEps)

\* blendRotations(palmRotation, backRotation, transition)
blendRotations(palmRotation, backRotation, transition) ==
    VecLerp(palmRotation, backRotation, transition)

(***************************************************************************)
(* Ring: the refs and scene objects of the component, and its useFrame     *)
(***************************************************************************)

NoDiameter == [has |-> FALSE, value |-> 0]

\* the Ring as it is mounted: the refs at their initial values, the group and the
\* userRotationGroup untransformed, the clipping plane along the camera axis
RingConstructed ==
    [baseDiameter |-> BaseDiameter,
     dir |-> ZeroVec, pos |-> ZeroVec,
     targetScale |-> FRAC, viewAxisAngle |-> 0, tiltX |-> 0,
     smoothedFingerDiameterNorm |-> NoDiameter,
     smoothedPosition |-> ZeroVec, prevAnchor |-> ZeroVec, anchorVelocity |-> ZeroVec,
     anchorInitialized |-> FALSE, anchorMotionMagnitude |-> 0,
     prevRawAnchorNorm |-> Vec2(0, 0), prevFilteredAnchorNorm |-> Vec2(0, 0),
     rawAnchorInitialized |-> FALSE, filteredAnchorInitialized |-> FALSE,
     microAnchorNorm |-> Vec2(0, 0), microAnchorInitialized |-> FALSE,
     smoothedHandClosure |-> 0, smoothedRotationYOffset |-> 0,
     rotationYOffsetInitialized |-> FALSE, lastTransformLogTs |-> 0,
     smoothedOrientation |-> "null", orientationTransition |-> 0,
     prevRotation |-> ZeroVec, prevClipNormal |-> Vec3(0, 0, 0 - FRAC),
     smoothedDistance |-> BASE_DISTANCE,
     group |-> [position |-> ZeroVec, rotation |-> ZeroVec, scale |-> FRAC],
     userRotationGroup |-> [position |-> ZeroVec, rotation |-> ZeroVec],
     clipPlane |-> [normal |-> Vec3(0, 0, 0 - FRAC), constant |-> 0]]

\* what useFrame reads: the store as the component last rendered it, the frame's
\* delta, the clock, and the scale of the parent group (RingPresence's) in 1/FRAC
RingInput(st, delta, nowTs, parentScale) ==
    [lms |-> IF st.landmarksRaw # NoLandmarks THEN st.landmarksRaw ELSE st.landmarks,
     landmarksStabilized |-> st.landmarksStabilized,
     landmarksTimestamp |-> st.landmarksUpdatedAt,
     orientation |-> st.orientation, palmScore |-> st.palmScore,
     handedness |-> st.handedness, delta |-> delta, nowTs |-> nowTs,
     parentScale |-> parentScale]

\* lookaheadSeconds, in ms
LookaheadMs(in) ==
    Min(250, Max(0, RingControls.motionLookaheadMs)
             + (IF in.landmarksTimestamp # UNDEF
                THEN Max(0, in.nowTs - in.landmarksTimestamp) ELSE 0))

Bias13 == lerp(DEFAULT_BIAS_TOWARD_13, 0, RingControls.anchorToward14)

AnchorOf(lms) == calculateAnchorPoint(lms[13], lms[14], Bias13, RingControls.alongFinger)

\* the frame's locals next to the refs: smoothingAttenuation, the anchor, and
\* desiredWorldDiameter
RingWork(r) == [r |-> r, att |-> FRAC, anchor |-> Vec2(0, 0), desired |-> 0]

\* the raw anchor is stored and its movement attenuates the smoothing
RawAnchorMoved(w, rawAnchor, rawDelta) ==
    [w EXCEPT !.r.rawAnchorInitialized = TRUE,
              !.r.anchorMotionMagnitude = rawDelta,
              !.r.prevRawAnchorNorm = rawAnchor,
              !.anchor = rawAnchor,
              !.att = IF rawDelta > 0
                      THEN calculateMotionAttenuation(rawDelta, MotionAttenuation.threshold,
                               MotionAttenuation.power, MotionAttenuation.min)
                      ELSE FRAC]

RawAnchor(w, rawAnchor) ==
    RawAnchorMoved(w, rawAnchor,
                   IF ~w.r.rawAnchorInitialized THEN 0
                   ELSE Hypot2(rawAnchor.x - w.r.prevRawAnchorNorm.x,
                               rawAnchor.y - w.r.prevRawAnchorNorm.y))

\* jitterBlend * (1 - velocityRatio)
BlendWeight(rawDelta) ==
    RDiv(RingControls.jitterBlend
         * (FRAC - clamp(RDiv(rawDelta * FRAC, Max(5, RingControls.jitterVelocityCutoff)),
                         0, FRAC)), FRAC)

BlendToward(w, stableAnchor, blendWeight) ==
    [w EXCEPT !.anchor = Vec2(lerp(@.x, stableAnchor.x, blendWeight),
                              lerp(@.y, stableAnchor.y, blendWeight))]

\* the anchor is blended toward the stabilized landmarks' while the hand is slow
StableBlend(w, in) ==
    IF RingControls.jitterBlend > 0 /\ in.landmarksStabilized # NoLandmarks
       /\ Length(in.landmarksStabilized) >= 21
    THEN BlendToward(w, AnchorOf(in.landmarksStabilized),
                     BlendWeight(w.r.anchorMotionMagnitude))
    ELSE w

\* alphaMicro from the distance to the micro anchor
MicroAlpha(microDist, microThreshold, delta) ==
    ExpAlpha((IF microDist > microThreshold THEN 280 ELSE 200)
             * Max(IF microDist > microThreshold THEN FRAC
                   ELSE SqFrac(clamp(RDiv(microDist * FRAC, microThreshold), 0, FRAC)),
                   1500),
             delta)

MicroToward(micro, filtered, alphaMicro) ==
    Vec2(micro.x + RDiv((filtered.x - micro.x) * alphaMicro, FRAC),
         micro.y + RDiv((filtered.y - micro.y) * alphaMicro, FRAC))

MicroNext(w, filtered, delta) ==
    IF ~w.r.microAnchorInitialized THEN filtered
    ELSE MicroToward(w.r.microAnchorNorm, filtered,
                     MicroAlpha(Hypot2(filtered.x - w.r.microAnchorNorm.x,
                                       filtered.y - w.r.microAnchorNorm.y),
                                Max(2, RDiv(Max(0, RingControls.jitterDeadzone) * 2, 10)),
                                delta))

MicroStore(w, micro) ==
    [w EXCEPT !.r.filteredAnchorInitialized = TRUE,
              !.r.microAnchorInitialized = TRUE,
              !.r.microAnchorNorm = micro,
              !.r.prevFilteredAnchorNorm = micro,
              !.anchor = micro]

\* the dead zone against the previous filtered anchor, then the micro anchor follows
FilteredAnchor(w, in) ==
    MicroStore(w, MicroNext(w,
                            IF ~w.r.filteredAnchorInitialized THEN w.anchor
                            ELSE applyDeadzone(w.anchor, w.r.prevFilteredAnchorNorm,
                                               Max(0, RingControls.jitterDeadzone)),
                            in.delta))

\* the anchor inside what object-fit: cover leaves visible of the video
CropOffset(vn, vd) == RDiv(POS * (vd - vn), 2 * vd)

Cropped(c, vn, vd) == clamp(MulDiv(c - CropOffset(vn, vd), vd, vn), 0, POS)

Adjusted(anchor) ==
    IF VideoAspect.n * CanvasSize.height > CanvasSize.width * VideoAspect.d
    THEN Vec2(Cropped(anchor.x, CanvasSize.width * VideoAspect.d,
                      CanvasSize.height * VideoAspect.n), anchor.y)
    ELSE Vec2(anchor.x, Cropped(anchor.y, CanvasSize.height * VideoAspect.n,
                                CanvasSize.width * VideoAspect.d))

\* ndc.unproject(camera) - camera.position, normalized, for ndc = (nx, ny, 0.5)
RayOf(kx, ky) ==
    Normalize(Vec3(CameraForward.x + RDiv(CameraRight.x * kx + CameraUp.x * ky, FRAC),
                   CameraForward.y + RDiv(CameraRight.y * kx + CameraUp.y * ky, FRAC),
                   CameraForward.z + RDiv(CameraRight.z * kx + CameraUp.z * ky, FRAC)))

\* the ray through the mirrored anchor: ndc = (mirroredX * 2 - 1, -(adjustedY * 2 - 1))
Ray(adjusted) ==
    RayOf(RDiv(RDiv((POS - 2 * adjusted.x) * TAN_HALF_FOV, FRAC) * CanvasSize.width,
               CanvasSize.height),
          RDiv((POS - 2 * adjusted.y) * TAN_HALF_FOV, FRAC))

\* BASE_DISTANCE + clamp(p13.z, -0.6, 0.6) * DEPTH_RANGE
TargetDistance(z) == BASE_DISTANCE + RDiv(clamp(z, 0 - 6000, 6000) * DEPTH_RANGE * W, POS)

\* dir.multiplyScalar(smoothedDistance) leaves the scaled vector in dir
PlacedAt(w, scaled, distance) ==
    [w EXCEPT !.r.dir = scaled, !.r.smoothedDistance = distance,
              !.r.pos = VecAdd(CameraPosition, scaled)]

PlacedOn(w, dir, distance) == PlacedAt(w, VecScale(dir, distance, FRAC), distance)

\* the smoothed distance, and pos on the ray at that distance
Placed(w, in) ==
    PlacedOn(w, Ray(Adjusted(w.anchor)),
             lerp(w.r.smoothedDistance, TargetDistance(in.lms[13].z),
                  computeAlpha(RingResponse.depth, in.delta, 800, w.att)))

\* |v| * WORLD_SPEED_ATTENUATION_GAIN clamped to 0..1, for v in 1/W per second:
\* a component of 1/gain alone saturates it
WorldFactor(v) ==
    IF MaxAbs(v) * MotionAttenuation.worldGain >= FRAC * W THEN FRAC
    ELSE clamp(RDiv(4 * Isqrt(MagSq(VecDiv(v, 4))) * MotionAttenuation.worldGain, W),
               0, FRAC)

WorldAttenuation(v) ==
    Max(MotionAttenuation.min,
        FRAC - RDiv(WorldFactor(v) * MotionAttenuation.worldPower, FRAC))

\* the anchor has moved with velocity v: look ahead along it and attenuate
AnchorMoved(w, v, lookMs) ==
    [w EXCEPT !.r.anchorVelocity = v,
              !.r.prevAnchor = w.r.pos,
              !.r.pos = IF lookMs > 0 THEN VecAdd(@, VecScale(v, lookMs, MILLI)) ELSE @,
              !.att = IF v # ZeroVec THEN Min(@, WorldAttenuation(v)) ELSE @]

\* the velocity of the anchor in the world, from the previous frame's
AnchorVelocity(w, in) ==
    IF ~w.r.anchorInitialized
    THEN [w EXCEPT !.r.prevAnchor = w.r.pos, !.r.anchorVelocity = ZeroVec,
                   !.r.anchorInitialized = TRUE]
    ELSE AnchorMoved(w, VecDiv(VecScale(VecSub(w.r.pos, w.r.prevAnchor), MILLI, 1),
                               Max(in.delta, 1)),
                     LookaheadMs(in))

\* the alpha of the position, damped for a micro movement
PositionAlpha(w, in) ==
    applyMicroJitterDamping(computeAlpha(RingResponse.position, in.delta, 500, w.att),
                            w.r.anchorMotionMagnitude,
                            MICRO_JITTER_CONFIG.position.threshold,
                            MICRO_JITTER_CONFIG.position.strength)

PositionTo(w, smoothed) ==
    [w EXCEPT !.r.smoothedPosition = smoothed, !.r.group.position = smoothed]

PositionBy(w, posAlpha) ==
    PositionTo(w, IF w.r.smoothedPosition = ZeroVec \/ posAlpha >= 9990
                  THEN w.r.pos
                  ELSE VecLerp(w.r.smoothedPosition, w.r.pos, posAlpha))

\* smoothedPosition follows pos; it is copied when it is the zero vector
Positioned(w, in) == PositionBy(w, PositionAlpha(w, in))

WidthAlpha(w, in) ==
    applyMicroJitterDamping(computeAlpha(RingResponse.width, in.delta, 500, w.att),
                            w.r.anchorMotionMagnitude,
                            MICRO_JITTER_CONFIG.scale.threshold,
                            RDiv(MICRO_JITTER_CONFIG.scale.strength * 7, 10))

DiameterTo(w, diameterNorm) ==
    [w EXCEPT !.r.smoothedFingerDiameterNorm = [has |-> TRUE, value |-> diameterNorm],
              !.desired = RDiv(diameterNorm
                               * RDiv(RDiv(2 * w.r.smoothedDistance * TAN_HALF_FOV, FRAC)
                                      * CanvasSize.width, CanvasSize.height), POS)]

\* the finger's diameter on the screen, smoothed, and the world diameter it asks for
Diameter(w, rawDiameterNorm, widthAlpha) ==
    DiameterTo(w, IF ~w.r.smoothedFingerDiameterNorm.has THEN rawDiameterNorm
                  ELSE lerp(w.r.smoothedFingerDiameterNorm.value, rawDiameterNorm,
                            widthAlpha))

Measured(w, in) ==
    Diameter(w, RDiv(Hypot2(in.lms[13].x - in.lms[14].x, in.lms[13].y - in.lms[14].y)
                     * FINGER_DIAMETER_TO_SEGMENT_RATIO, FRAC),
             WidthAlpha(w, in))

\* lerp(DEPTH_SCALE_NEAR, DEPTH_SCALE_FAR, normalizedDistance)
DepthScaleFactor(distance) ==
    DEPTH_SCALE_NEAR
    - RDiv((DEPTH_SCALE_NEAR - DEPTH_SCALE_FAR)
           * (IF DEPTH_SCALE_FAR_DISTANCE - DEPTH_SCALE_NEAR_DISTANCE > 0
              THEN clamp(RDiv((distance - DEPTH_SCALE_NEAR_DISTANCE) * FRAC,
                              DEPTH_SCALE_FAR_DISTANCE - DEPTH_SCALE_NEAR_DISTANCE),
                         0, FRAC)
              ELSE 0), FRAC)

\* lerp(2.0, 2.50, horizontalness)
DynamicFitAdjust(palmScore) ==
    lerp(2 * FRAC, 25000,
         clamp(FRAC - (IF palmScore.has THEN Abs(RDiv(palmScore.value, SCORE \div FRAC))
                       ELSE FRAC), 0, FRAC))

\* ((desiredWorldDiameter * SNUG_FIT) / modelInnerDiameter) * depthScaleFactor
FitScaleRaw(desired, modelInnerDiameter, depthScaleFactor) ==
    RDiv(RDiv(RDiv(desired * SNUG_FIT, FRAC) * FRAC, modelInnerDiameter)
         * depthScaleFactor, FRAC)

FitScale(w, in) ==
    clamp(RDiv(FitScaleRaw(w.desired,
                           RDiv(w.r.baseDiameter * DEFAULT_MODEL_INNER_DIAMETER_RATIO, FRAC),
                           DepthScaleFactor(w.r.smoothedDistance))
               * DynamicFitAdjust(in.palmScore), FRAC),
          SCALE_MIN, SCALE_MAX)

ScaleAlpha(w, in) ==
    applyMicroJitterDamping(computeAlpha(RingResponse.scale, in.delta, 400, w.att),
                            w.r.anchorMotionMagnitude,
                            MICRO_JITTER_CONFIG.scale.threshold,
                            MICRO_JITTER_CONFIG.scale.strength)

\* targetScale follows the fit scale
Scaled(w, in) ==
    IF w.r.baseDiameter # 0
    THEN [w EXCEPT !.r.targetScale = lerp(@, FitScale(w, in), ScaleAlpha(w, in))]
    ELSE w

\* the z axis group.lookAt(camera.position) gives the group: toward the camera
TowardCamera(position) == Normalize(VecDiv(VecSub(CameraPosition, position), 10))

\* the Euler angles x and y of a group whose z axis is zAxis
LookAtRotation(zAxis, roll) == Vec3(Atan2(0 - zAxis.y, zAxis.z), Asin(zAxis.x), roll)

AngleAlpha(w, in) ==
    applyMicroJitterDamping(computeAlpha(RingResponse.orientation, in.delta, 300, w.att),
                            w.r.anchorMotionMagnitude,
                            MICRO_JITTER_CONFIG.rotation.threshold,
                            MICRO_JITTER_CONFIG.rotation.strength)

\* the group's position in the world: its parent is scaled about the origin
WorldPosition(w, in) == VecScale(w.r.group.position, in.parentScale, FRAC)

\* group.lookAt(camera.position), then rotation.z = viewAxisAngle
RolledTo(w, in, angle) ==
    [w EXCEPT !.r.viewAxisAngle = angle,
              !.r.group.rotation = LookAtRotation(TowardCamera(WorldPosition(w, in)), angle)]

\* ((targetAngle - curr + PI) % (2 * PI)) - PI
AngleDiff(targetAngle, curr) == JsMod(targetAngle - curr + PI_RAD, 2 * PI_RAD) - PI_RAD

\* targetAngle: the angle of the segment 13-14 on the mirrored screen, negated, + 0.5
TargetAngle(in) ==
    0 - Atan2(in.lms[14].y - in.lms[13].y, (POS - in.lms[14].x) - (POS - in.lms[13].x))
    + RAD \div 2

\* the roll about the view axis follows the finger segment on the mirrored screen
Rolled(w, in) ==
    RolledTo(w, in, w.r.viewAxisAngle
                + RDiv(AngleDiff(TargetAngle(in), w.r.viewAxisAngle) * AngleAlpha(w, in),
                       FRAC))

IsRight(handedness) == handedness \in {"Right", "right", "RIGHT"}

IsLeft(handedness) == handedness \in {"Left", "left", "LEFT"}

\* smoothedHandClosure follows calculateHandClosure(lms)
Closed(w, in) ==
    [w EXCEPT !.r.smoothedHandClosure =
                  lerp(@, calculateHandClosure(in.lms),
                       computeAlpha(RingResponse.closure, in.delta, 500, w.att))]

\* approxFingerRadius
FingerRadius(w) ==
    Max(1, IF w.desired > 0 THEN RDiv(w.desired, 2)
           ELSE RDiv(RDiv(w.r.baseDiameter * w.r.targetScale, FRAC), 2))

\* positionOffsetY + rotationOffsetPositionY * approxFingerRadius * rotationInfluence
TargetPosY(w, in) ==
    RingControls.positionOffsetY
    + RDiv(RDiv(RingControls.rotationOffsetPositionY * FingerRadius(w), FRAC)
           * NormalizedPalmScore(in.orientation, in.palmScore), FRAC)

\* -closureOffsetPositionZ * smoothedHandClosure when the back of the hand shows
ClosurePosZ(w, in) ==
    IF in.orientation = "back"
    THEN 0 - RDiv(RingControls.closureOffsetPositionZ * w.r.smoothedHandClosure, FRAC)
    ELSE 0

OffsetTo(w, in, offsetY) ==
    [w EXCEPT !.r.smoothedRotationYOffset = offsetY,
              !.r.rotationYOffsetInitialized = TRUE,
              !.r.userRotationGroup.position =
                  Vec3(@.x, offsetY, RingControls.positionOffsetZ + ClosurePosZ(w, in))]

\* the userRotationGroup is shifted along Y with the palm score, along Z with the closure
Offset(w, in) ==
    OffsetTo(w, in, IF ~w.r.rotationYOffsetInitialized THEN TargetPosY(w, in)
                    ELSE lerp(w.r.smoothedRotationYOffset, TargetPosY(w, in),
                              PositionAlpha(w, in)))

SCORE_EPS == 1200

TransitionTo(w, in, transition) ==
    [w EXCEPT !.r.orientationTransition = transition,
              !.r.smoothedOrientation =
                  IF transition > 9000 /\ in.orientation = "back" THEN "back"
                  ELSE IF transition < 1000 /\ in.orientation = "palm" THEN "palm"
                  ELSE @]

\* orientationTransition follows its target; smoothedOrientation follows it
Transitioned(w, in) ==
    TransitionTo(w, in,
                 lerp(w.r.orientationTransition,
                      calculateOrientationTransition(in.orientation, in.palmScore, SCORE_EPS),
                      ExpAlpha(12 * FRAC, in.delta)))

OffsetXRad(in) ==
    degToRad(IF IsRight(in.handedness) THEN 0 - 500 ELSE RingControls.rotationOffsetX)

\* closureOffsetZRad * smoothedHandClosure when the back of the hand shows
ClosureZ(w, in) ==
    IF in.orientation = "back"
    THEN RDiv(degToRad(RingControls.closureOffsetZ) * w.r.smoothedHandClosure, FRAC)
    ELSE 0

BackRotation(w, in) ==
    Vec3(degToRad(IF IsLeft(in.handedness) THEN 0 - 650 ELSE 0 - 1280)
         + w.r.tiltX * 8 + OffsetXRad(in),
         degToRad(RingControls.rotationOffsetY),
         degToRad(RingControls.rotationOffsetZ) - ClosureZ(w, in))

PalmRotation(in) ==
    Vec3(RAD + OffsetXRad(in), degToRad(RingControls.rotationOffsetY),
         degToRad(RingControls.rotationOffsetZ))

\* score * TILT_MAX_RAD * sign
TargetTilt(in) ==
    RDiv((IF in.palmScore.has /\ Abs(in.palmScore.value) > SCORE_EPS * (SCORE \div FRAC)
          THEN RDiv(in.palmScore.value, SCORE \div FRAC)
          ELSE IF in.orientation = "palm" THEN FRAC
          ELSE IF in.orientation = "back" THEN 0 - FRAC
          ELSE 0) * degToRad(350), FRAC)
    * (IF IsLeft(in.handedness) THEN 0 - 1 ELSE 1)

TiltAlpha(w, in) ==
    applyMicroJitterDamping(computeAlpha(RingResponse.tilt, in.delta, 600, w.att),
                            w.r.anchorMotionMagnitude,
                            MICRO_JITTER_CONFIG.rotation.threshold,
                            RDiv(MICRO_JITTER_CONFIG.rotation.strength * 8, 10))

\* a multiplier that takes the closure whatever side of the hand shows
SafeScaleMultiplierAnySide(w, in) ==
    Max(100, Max(100, FRAC + RDiv(RingControls.closureScaleBoost
                                  * w.r.smoothedHandClosure, FRAC)))

\* closureScaleMultiplier, at least 0.01
SafeScaleMultiplier(w, in) ==
    IF in.orientation = "back"
    THEN Max(100, Max(100, FRAC + RDiv(RingControls.closureScaleBoost
                                       * w.r.smoothedHandClosure, FRAC)))
    ELSE Max(100, FRAC)

RotatedTo(w, in, blended, rotationSmoothAlpha) ==
    [w EXCEPT !.r.prevRotation =
                  Vec3(blended.x, blended.y, lerp(@.z, blended.z, rotationSmoothAlpha)),
              !.r.userRotationGroup.rotation =
                  Vec3(blended.x, blended.y,
                       lerp(w.r.prevRotation.z, blended.z, rotationSmoothAlpha)),
              !.r.tiltX = IF w.r.orientationTransition > FRAC \div 2
                          THEN lerp(@, TargetTilt(in), TiltAlpha(w, in)) ELSE @,
              !.r.group.scale = RDiv(w.r.targetScale * SafeScaleMultiplier(w, in), FRAC),
              !.r.lastTransformLogTs = IF in.nowTs - @ >= 1000 THEN in.nowTs ELSE @]

\* the userRotationGroup's rotation blends the palm and back rotations; tiltX follows
\* the palm score while the back shows; the group takes the scale
Rotated(w, in) ==
    RotatedTo(w, in,
              blendRotations(PalmRotation(in), BackRotation(w, in),
                             w.r.orientationTransition),
              ExpAlpha(15 * FRAC, in.delta))

\* -(point . normal), the constant of setFromNormalAndCoplanarPoint
PlaneConstant(normal, point) ==
    0 - (MulDiv(point.x, normal.x, FRAC) + MulDiv(point.y, normal.y, FRAC)
         + MulDiv(point.z, normal.z, FRAC))

ClippedBy(w, normal) ==
    [w EXCEPT !.r.prevClipNormal = normal,
              !.r.clipPlane = [normal |-> normal,
                               constant |-> PlaneConstant(normal, w.r.group.position)]]

\* lerpVectors(palmNormal, backNormal, orientationTransition).normalize()
TargetNormal(planeNormal, transition) ==
    Normalize(VecLerp(VecNeg(planeNormal), planeNormal, transition))

\* the clipping plane's normal follows the side the orientation shows
Clipped(w, in) ==
    ClippedBy(w, Normalize(VecLerp(w.r.prevClipNormal,
                                   TargetNormal(TowardCamera(w.r.group.position),
                                                w.r.orientationTransition),
                                   ExpAlpha(10 * FRAC, in.delta))))

\* the anchor on the screen: raw, blended, through the dead zone and the micro anchor
Anchored(r, in) ==
    FilteredAnchor(StableBlend(RawAnchor(RingWork(r), AnchorOf(in.lms)), in), in)

\* the group's position, scale and rotation toward the camera
Posed(r, in) ==
    Rolled(Scaled(Measured(Positioned(AnchorVelocity(Placed(Anchored(r, in), in), in), in),
                           in), in), in)

\* the branch of useFrame for a hand of 21 landmarks
RingHand(r, in) ==
    Clipped(Rotated(Transitioned(Offset(Closed(Posed(r, in), in), in), in), in), in).r

\* the branch of useFrame without landmarks
RingIdle(r, in) ==
    [r EXCEPT !.anchorInitialized = FALSE,
              !.smoothedFingerDiameterNorm = NoDiameter,
              !.smoothedDistance = BASE_DISTANCE,
              !.rawAnchorInitialized = FALSE,
              !.filteredAnchorInitialized = FALSE,
              !.microAnchorInitialized = FALSE,
              !.smoothedHandClosure = 0,
              !.orientationTransition = 0,
              !.smoothedOrientation = "null",
              !.prevRotation = ZeroVec,
              !.rotationYOffsetInitialized = FALSE,
              !.smoothedRotationYOffset = RingControls.positionOffsetY,
              !.group.scale = r.targetScale,
              !.group.rotation = Vec3(@.x + 8 * in.delta, @.y + 6 * in.delta, @.z),
              !.userRotationGroup.position =
                  Vec3(@.x, RingControls.positionOffsetY, RingControls.positionOffsetZ)]

\* lms && lms.length >= 21
HasHand(in) == in.lms # NoLandmarks /\ Length(in.lms) >= 21

\* the callback Ring gives useFrame
\* an entry of the landmark array that is missing (a hole of the array)
NoPoint == [missing |-> TRUE]

\* !p13 || !p14
AnchorMissing(in) == in.lms[13] = NoPoint \/ in.lms[14] = NoPoint

\* a variant of the callback that takes a frame without p13 or p14 for a frame
\* without a hand
RingUseFrameNoReturn(r, in) ==
    IF HasHand(in) /\ ~AnchorMissing(in) THEN RingHand(r, in) ELSE RingIdle(r, in)

RingUseFrame(r, in) ==
    IF HasHand(in)
    THEN (IF AnchorMissing(in) THEN r ELSE RingHand(r, in))
    ELSE RingIdle(r, in)

\* what the frame leaves on the scene objects: the group's position, scale and
\* rotation (z is the roll about the view axis), the userRotationGroup's offset and
\* rotation, and the clipping plane
RingOutput(r) ==
    [position |-> r.group.position, scale |-> r.group.scale,
     rotation |-> r.group.rotation, roll |-> r.viewAxisAngle,
     offset |-> r.userRotationGroup.position,
     userRotation |-> r.userRotationGroup.rotation,
     clipNormal |-> r.clipPlane.normal, clipConstant |-> r.clipPlane.constant]

(***************************************************************************)
(* RingPresence: mounts the Ring while a hand shows.  Scales in 1/MICRO.   *)
(***************************************************************************)

MICRO == 100 * FRAC

MIN_SCALE == 100

\* a scale prop that is the same whatever show is: show ? 0.8 : 0.8
PropScaleShown(show) == 8 * (MICRO \div 10)

\* the scale prop of the group: show ? 0.8 : MIN_SCALE
PropScale(show) == IF show THEN 8 * (MICRO \div 10) ELSE MIN_SCALE

\* RingPresence before show was ever true: nothing mounted
NoPresence ==
    [mounted |-> FALSE, show |-> FALSE, scale |-> 0, opacity |-> 0, depthWrite |-> FALSE,
     unmount |-> FALSE]

\* 1 - Math.pow(0.0001, delta): 0.0001 is exp(-9.2103)
PresenceAlpha(delta) == ExpAlpha(92103, delta)

\* the group takes the scale next, the materials the opacity that goes with it, and
\* setMounted(false) is called once the group has shrunk
PresenceScaled(p, next, t) ==
    [p EXCEPT !.scale = next, !.opacity = t, !.depthWrite = t > 100,
              !.unmount = @ \/ (~p.show /\ 2 * next <= 3 * MIN_SCALE)]

PresenceTo(p, next) ==
    PresenceScaled(p, next,
                   clamp(MulDiv(next - MIN_SCALE, FRAC \div 100, (MICRO - MIN_SCALE) \div 100),
                         0, FRAC))

\* the body of the callback, with the weight of the lerp worked out
PresenceLerp(p, alpha) ==
    IF ~p.mounted THEN p
    ELSE PresenceTo(p, lerp(p.scale, IF p.show THEN MICRO ELSE MIN_SCALE, alpha))

\* the callback RingPresence gives useFrame
PresenceUseFrame(p, delta) == PresenceLerp(p, PresenceAlpha(delta))

\* showRing of App; the video element is set before the loop starts
ShowRing(st) == st.landmarks # NoLandmarks /\ Length(st.landmarks) > 0

\* the render of RingPresence with the new show: a pending setMounted(false) takes
\* effect, and a scale prop that changed is applied to the group
PresenceCommitted(p, show) ==
    [p EXCEPT !.mounted = @ /\ ~p.unmount,
              !.unmount = FALSE,
              !.show = show,
              !.scale = IF ~(p.mounted /\ ~p.unmount) THEN 0
                        ELSE IF show # p.show THEN PropScale(show) ELSE @]

\* the effect on [show] left out: setMounted(true) is never called
PresenceMountedNever(was, p) == p

\* the effect on [show]: setMounted(true) when show became true, and the render
\* that follows mounts the group with its scale prop
PresenceMounted(was, p) ==
    IF p.show /\ ~was /\ ~p.mounted
    THEN [p EXCEPT !.mounted = TRUE, !.scale = PropScale(TRUE)]
    ELSE p

\* what React makes of RingPresence once the updates and the effects are processed
PresenceRender(p, show) == PresenceMounted(p.show, PresenceCommitted(p, show))

\* the Ring lives on while its parent stays mounted; a mount constructs it anew
RingRender(r, p) == IF p.mounted /\ ~p.unmount THEN r ELSE RingConstructed

(***************************************************************************)
(* HandTracker: the init effect, its cleanup and the retry                 *)
(***************************************************************************)

\* the runs of the init effect that are modelled (retryKey = 0 .. MaxInits - 1)
MaxInits == 3

Inits == 1..MaxInits

\* a run of the init effect that has not started: its closure variables, where
\* init() stands, and what it did after its cleanup ran
NoInit ==
    [pc |-> "idle", cancelled |-> FALSE, stream |-> "null", failed |-> FALSE,
     lateRaf |-> FALSE, lateFrame |-> FALSE]

\* HandTracker as rendered the first time, before its effects run
TrackerRendered ==
    [mounted |-> TRUE, camError |-> "null", ready |-> FALSE, retryKey |-> 0,
     landmarkerRef |-> 0, animationRef |-> 0, raf |-> {},
     inits |-> [k \in Inits |-> NoInit]]

\* the effect has run: init() awaits FilesetResolver.forVisionTasks
TrackerInitStarted ==
    [TrackerRendered EXCEPT !.inits[1].pc = "fileset"]

\* init() has completed and the loop is scheduled
TrackerLooping ==
    [TrackerRendered EXCEPT !.ready = TRUE, !.landmarkerRef = 1, !.animationRef = 1,
                            !.raf = {1}, !.inits[1].pc = "loop",
                            !.inits[1].stream = "live"]

\* the effect run that is current
CurrentInit(l) == l.retryKey + 1

\* videoRef.current is the <video> of the tracking view: it is rendered while the
\* component is mounted and shows no camera error
VideoRef(l) == l.mounted /\ l.camError = "null"

\* setCamError: a state update of an unmounted component has no effect
setCamError(l, e) == IF l.mounted THEN [l EXCEPT !.camError = e] ELSE l

\* init() returns
InitReturned(l, k) == [l EXCEPT !.inits[k].pc = "done"]

\* the catch of init(): any rejection other than getUserMedia's
InitCaught(l, k) ==
    InitReturned(setCamError([l EXCEPT !.inits[k].failed = TRUE], "init-failed"), k)

\* after await FilesetResolver.forVisionTasks
AfterFileset(l, k) ==
    IF l.inits[k].cancelled THEN InitReturned(l, k) ELSE [l EXCEPT !.inits[k].pc = "create"]

\* a variant of the unavailable branch that sets the error and goes on to getUserMedia
AfterCreateUnavailableNoReturn(l, k) ==
    setCamError([l EXCEPT !.landmarkerRef = k, !.inits[k].failed = TRUE,
                          !.inits[k].pc = "gum"], "unavailable")

\* after await HandLandmarker.createFromOptions, with or without
\* navigator.mediaDevices.getUserMedia
AfterCreateUnavailable(l, k) ==
    InitReturned(setCamError([l EXCEPT !.landmarkerRef = k, !.inits[k].failed = TRUE],
                             "unavailable"), k)

AfterCreate(l, k, available) ==
    IF available
    THEN [l EXCEPT !.landmarkerRef = k, !.inits[k].pc = "gum"]
    ELSE AfterCreateUnavailable(l, k)

\* getUserMedia rejected
GumErrors == {"not-found", "denied", "other"}

\* a variant of the getUserMedia catch that returns without an error state
AfterGumRejectedSilent(l, k, e) == InitReturned([l EXCEPT !.inits[k].failed = TRUE], k)

AfterGumRejected(l, k, e) ==
    IF l.inits[k].cancelled
    THEN InitReturned(l, k)
    ELSE InitReturned(setCamError([l EXCEPT !.inits[k].failed = TRUE], e), k)

\* getUserMedia resolved: the stream is attached and played if the video is there
AfterGum(l, k) ==
    IF VideoRef(l)
    THEN [l EXCEPT !.inits[k].stream = "live", !.inits[k].pc = "play"]
    ELSE InitReturned([l EXCEPT !.inits[k].stream = "live"], k)

\* requestAnimationFrame(loop) by run k
RequestFrame(l, k) ==
    [l EXCEPT !.animationRef = k, !.raf = @ \cup {k},
              !.inits[k].lateRaf = @ \/ l.inits[k].cancelled]

\* after await video.play(): setVideoEl, setReady(true), the loop is scheduled
AfterPlay(l, k) ==
    RequestFrame([l EXCEPT !.ready = l.mounted, !.inits[k].pc = "loop"], k)

\* the guard of loop()
LoopGuard(l) == VideoRef(l) /\ l.landmarkerRef # 0

\* loop() of run k is called: it returns at its guard, or processes the frame and,
\* unless it threw, requests the next one
LoopReturned(l, k) == [l EXCEPT !.raf = @ \ {k}, !.inits[k].pc = "done"]

LoopProcessed(l, k, threw) ==
    IF threw
    THEN [l EXCEPT !.raf = @ \ {k}, !.inits[k].pc = "done",
                   !.inits[k].lateFrame = @ \/ l.inits[k].cancelled]
    ELSE RequestFrame([l EXCEPT !.inits[k].lateFrame = @ \/ l.inits[k].cancelled], k)

\* the cleanup of the effect run k
CancelFrame(l) == [l EXCEPT !.raf = @ \ {l.animationRef}]

CloseLandmarker(l) == [l EXCEPT !.landmarkerRef = 0]

StopStream(l, k) ==
    IF l.inits[k].stream = "live" THEN [l EXCEPT !.inits[k].stream = "stopped"] ELSE l

Cleanup(l, k) ==
    StopStream(CloseLandmarker(CancelFrame([l EXCEPT !.inits[k].cancelled = TRUE])), k)

\* handleRetry, then the commit: the cleanup of the current run, the next run
handleRetry(l) == [l EXCEPT !.camError = "null", !.ready = FALSE, !.retryKey = @ + 1]

Retried(l) ==
    [Cleanup(handleRetry(l), CurrentInit(l)) EXCEPT !.inits[CurrentInit(l) + 1].pc = "fileset"]

\* the component is unmounted: the refs are detached, the cleanup runs
Unmounted(l) == Cleanup([l EXCEPT !.mounted = FALSE], CurrentInit(l))

\* the frame loops that are scheduled
LoopsRunning(l) == l.raf

(***************************************************************************)
(* State                                                                   *)
(***************************************************************************)

VARIABLES
    stab,       \* the LandmarkStabilizer (landmarkStabilizerRef.current)
    clock,      \* the timestamp of the latest call or frame, in ms
    nCalls,     \* calls (SpecStab) or frames made so far
    call,       \* history: the latest call on the stabilizer
    lastOut,    \* history: what the latest apply that returned gave back
    palmScoreEma,           \* palmScoreEmaRef.current
    lastOrientationRef,     \* lastOrientationRef.current: "palm", "back" or "null"
    lastOrientationLogTs,   \* lastOrientationLogTs.current
    store,      \* the state of useHandStore
    rafPending, \* the loop is scheduled with requestAnimationFrame
    frame,      \* history: the latest frame the loop processed
    hist,       \* history: what the properties need of the earlier frames
    sweep,      \* the sweep being played (SpecSweep): frame interval, first frame
    ring,       \* the Ring: its refs, its groups and its clipping plane
    presence,   \* RingPresence: its state, its props and its group
    rendered,   \* the store as the components last rendered it
    ringLog,    \* history: the phase of the animation frame, the Ring's latest frame,
                \* what the Ring left on the scene on the second frame
    life        \* HandTracker's state, its refs and the runs of its init effect

stabVars == <<stab, clock, nCalls, call, lastOut>>

trackerVars == <<palmScoreEma, lastOrientationRef, lastOrientationLogTs, store, rafPending>>

ringVars == <<ring, presence, rendered, ringLog>>

frameVars == <<frame, hist, sweep, ringVars>>

vars == <<stabVars, trackerVars, frameVars, life>>

NoFrame ==
    [kind |-> "none", raw |-> NoLandmarks, handed |-> "null", nowMs |-> 0, now |-> 0,
     threw |-> FALSE, preOrientation |-> "null", prevKind |-> "none", prePub |-> UNDEF]

NoSweep == [gap |-> 0, first |-> 0]

NoHist ==
    [lastPub |-> UNDEF, inBand |-> TRUE, inBandSum |-> TRUE, flips |-> 0, seenAbove |-> FALSE]

NoRingLog ==
    [phase |-> "presence", kind |-> "none", hands |-> 0, lost |-> FALSE,
     afterLoss |-> FALSE, fresh |-> RingOutput(RingConstructed),
     second |-> RingOutput(RingConstructed)]

\* the scene before a hand was seen: RingPresence renders nothing
SceneConstructed ==
    /\ ring = RingConstructed
    /\ presence = NoPresence
    /\ rendered = InitialStore
    /\ ringLog = NoRingLog

\* HandTracker as constructed, before its effects run
TrackerConstructed ==
    /\ SceneConstructed
    /\ palmScoreEma = EmaValue(8000)
    /\ lastOrientationRef = "null"
    /\ lastOrientationLogTs = 0
    /\ store = InitialStore
    /\ rafPending = FALSE
    /\ frame = NoFrame
    /\ hist = NoHist
    /\ sweep = NoSweep

(***************************************************************************)
(* SpecStab: a caller drives one LandmarkStabilizer with apply (well formed *)
(* or not, with any timestamp order), reset and configure.                 *)
(***************************************************************************)

MaxStabCalls == 3

\* the hands the caller passes: at rest, moved by less than every dead zone, moved
\* moved fast with the finger tips changing depth
StabHands ==
    << Hand(HandParams(0, 0, 1, 0, 0)),
       Hand(HandParams(1, 0, 1, 0, 0)),
       Hand(HandParams(400, 300, 1, 0 - 300, 600)) >>

\* timestamp steps: back in time, a repeated timestamp, one frame at 60 Hz
StabSteps == {0 - 16, 0, 16}

BadLengths == {NUM_LANDMARKS - 1, NUM_LANDMARKS + 1}

\* the overrides HandTracker passes from its controls (defaults), and a changed slider
ControlParams == Params(2, UNDEF, 15, 4000, 4000, 30, UNDEF)

SliderParams == Params(10, UNDEF, 15, 2000, 1000, 30, UNDEF)

ConfigModes == {NoMode, "responsive", "stable"}

ConfigParams == {NoParams, SliderParams}

NoCall == [op |-> "none", pre |-> LandmarkStabilizer("responsive", NoParams),
           landmarks |-> << >>, timestamp |-> 0, mode |-> NoMode, customParams |-> NoParams,
           threw |-> FALSE, out |-> << >>, prevOut |-> << >>]

InitStab ==
    /\ stab = LandmarkStabilizer("responsive", NoParams)
    /\ clock = 1000
    /\ nCalls = 0
    /\ call = NoCall
    /\ lastOut = << >>
    /\ TrackerConstructed
    /\ life = TrackerRendered

\* apply(landmarks, timestamp) with result r
Applied(landmarks, timestamp, r) ==
    /\ nCalls < MaxStabCalls
    /\ stab' = r.s
    /\ clock' = timestamp
    /\ nCalls' = nCalls + 1
    /\ call' = [NoCall EXCEPT !.op = "apply", !.pre = stab, !.landmarks = landmarks,
                              !.timestamp = timestamp, !.threw = r.threw,
                              !.out = r.out, !.prevOut = lastOut]
    /\ lastOut' = IF r.threw THEN lastOut ELSE r.out
    /\ UNCHANGED <<trackerVars, frameVars, life>>

CallApply(landmarks, step) ==
    Applied(landmarks, clock + step, StabilizerApply(stab, landmarks, clock + step))

ApplyHand == \E k \in DOMAIN StabHands, step \in StabSteps : CallApply(StabHands[k], step)

ApplyMalformed ==
    \E n \in BadLengths : CallApply(HandOf(HandParams(400, 300, 1, 0, 0), n), 16)

CallReset ==
    /\ nCalls < MaxStabCalls
    /\ stab' = StabilizerReset(stab)
    /\ nCalls' = nCalls + 1
    /\ call' = [NoCall EXCEPT !.op = "reset", !.pre = stab]
    /\ UNCHANGED <<clock, lastOut, trackerVars, frameVars, life>>

CallConfigure ==
    \E mode \in ConfigModes, customParams \in ConfigParams :
        /\ nCalls < MaxStabCalls
        /\ stab' = StabilizerConfigure(stab, mode, customParams)
        /\ nCalls' = nCalls + 1
        /\ call' = [NoCall EXCEPT !.op = "configure", !.pre = stab, !.mode = mode,
                                  !.customParams = customParams]
        /\ UNCHANGED <<clock, lastOut, trackerVars, frameVars, life>>

NextStab == ApplyHand \/ ApplyMalformed \/ CallReset \/ CallConfigure

SpecStab == InitStab /\ [][NextStab]_vars

(***************************************************************************)
(* Properties of the stabilizer (SpecStab)                                 *)
(***************************************************************************)

LandmarkIds == 0..(NUM_LANDMARKS - 1)

\* what a filter carries from one update to the next: everything but its parameters
OneEuroRunning(e) == [has |-> e.has, x |-> e.x, dx |-> e.dx, lastTime |-> e.lastTime]

RunningState(f) ==
    [hasPrev |-> f.hasPrev, prev |-> f.prev, velocity |-> f.velocity,
     acceleration |-> f.acceleration, velocityHistory |-> f.velocityHistory,
     lastTimestamp |-> f.lastTimestamp, stableFrames |-> f.stableFrames,
     oneEuroX |-> OneEuroRunning(f.oneEuroX), oneEuroY |-> OneEuroRunning(f.oneEuroY),
     oneEuroZ |-> OneEuroRunning(f.oneEuroZ)]

\* the running state of a filter that has seen no update
FreshRunning == RunningState(StabilizationFilter(presets["responsive"]))

IsRunning(s) == \E i \in LandmarkIds : RunningState(s.filters[i]) # FreshRunning

\* inputs tried on every reachable filter
ProbePoints == {Vec3(5000, 6000, 0), Vec3(1234, 9876, 0 - 4321)}

ProbeTimes == {0, 984, 1016}

\* C2: apply with a landmark array whose length is not 21 throws and changes none
\* of the 21 filter states, so a following valid apply returns what it would have
\* returned without the bad call.
C2_MalformedApplyThrows ==
    (call.op = "apply" /\ Length(call.landmarks) # NUM_LANDMARKS) =>
        /\ call.threw
        /\ stab = call.pre
        /\ \A k \in DOMAIN StabHands, step \in StabSteps :
               StabilizerApply(stab, StabHands[k], clock + step)
                   = StabilizerApply(call.pre, StabHands[k], clock + step)

\* a malformed apply on a stabilizer whose filters were running
C2_Witness ==
    /\ call.op = "apply"
    /\ Length(call.landmarks) # NUM_LANDMARKS
    /\ call.threw
    /\ IsRunning(call.pre)

\* C4: an update whose timestamp is not greater than the last accepted timestamp
\* returns exactly what the immediately preceding update returned and changes no
\* filter state.
C4_NonIncreasingReturnsPrecedingOutput ==
    (call.op = "apply" /\ ~call.threw) =>
        \A i \in LandmarkIds :
            LET f == call.pre.filters[i] IN
            (f.hasPrev /\ call.timestamp <= f.lastTimestamp) =>
                (call.out[i] = call.prevOut[i] /\ stab.filters[i] = f)

\* the part of C4 the code keeps: such an update changes no filter state and
\* returns the stored previous point
C4_NonIncreasingReturnsStoredPrev ==
    (call.op = "apply" /\ ~call.threw) =>
        \A i \in LandmarkIds :
            LET f == call.pre.filters[i] IN
            (f.hasPrev /\ call.timestamp <= f.lastTimestamp) =>
                (call.out[i] = f.prev /\ stab.filters[i] = f)

\* C5: the first update on a freshly constructed or freshly reset
\* StabilizationFilter, and on the OneEuroFilter it wraps, returns its input
\* unchanged, for every input and timestamp.
C5_FirstUpdateReturnsInput ==
    /\ (call.op = "apply" /\ ~call.threw) =>
           \A i \in LandmarkIds :
               ~call.pre.filters[i].hasPrev => call.out[i] = call.landmarks[i]
    /\ \A i \in LandmarkIds, p \in ProbePoints, t \in ProbeTimes :
           LET f == stab.filters[i] IN
           /\ FilterUpdate(FilterReset(f), p, t).out = p
           /\ ~f.hasPrev => FilterUpdate(f, p, t).out = p
           /\ \A e \in {f.oneEuroX, f.oneEuroY, f.oneEuroZ} :
                  /\ OneEuroUpdate(OneEuroReset(e), p.z, t).out = p.z
                  /\ ~e.has => OneEuroUpdate(e, p.z, t).out = p.z

\* an apply on filters that had run and were reset gives the landmarks back
C5_Witness ==
    /\ call.op = "apply"
    /\ ~call.threw
    /\ call.prevOut # << >>
    /\ \A i \in LandmarkIds : ~call.pre.filters[i].hasPrev
    /\ call.out = call.landmarks
    /\ call.out # call.prevOut

\* C6: configure discards filter state if and only if its mode differs from the
\* current one (the next apply then returns its landmarks unchanged); otherwise
\* every filter's running state is left unchanged.
C6_ConfigureDiscardsIffModeDiffers ==
    call.op = "configure" =>
        IF call.mode # NoMode /\ call.mode # call.pre.mode
        THEN /\ ~IsRunning(stab)
             /\ \A k \in DOMAIN StabHands, step \in StabSteps :
                    LET r == StabilizerApply(stab, StabHands[k], clock + step)
                    IN  ~r.threw /\ r.out = StabHands[k]
        ELSE \A i \in LandmarkIds :
                 RunningState(stab.filters[i]) = RunningState(call.pre.filters[i])

\* a configure with the current mode and new parameters on running filters
C6_Witness ==
    /\ call.op = "configure"
    /\ call.mode = call.pre.mode
    /\ call.customParams # NoParams
    /\ stab.filters # call.pre.filters
    /\ IsRunning(stab)

\* a configure with another mode on running filters
C6_WitnessModeChange ==
    /\ call.op = "configure"
    /\ call.mode # NoMode
    /\ call.mode # call.pre.mode
    /\ IsRunning(call.pre)

(***************************************************************************)
(* HandTracker: the detection loop.  The refs and the store the loop works *)
(* on are gathered in a record t = [stab, ema, ref, logTs, store, threw].  *)
(***************************************************************************)

DEBOUNCE_MS == 500

\* a debounce that lets every change through
DebounceOff(now, lastTs) == TRUE

\* now - lastOrientationLogTs.current > 500
DebouncePassed(now, lastTs) == now - lastTs > DEBOUNCE_MS

\* landmarkStabilizerRef.current.apply(raw, nowMs) returned r; setLandmarks(...)
Stabilized(t, r, raw, handed, nowMs) ==
    [t EXCEPT !.stab = r.s, !.store = setLandmarks(@, r.out, handed, raw, nowMs)]

\* the orientation just detected is published when it differs and the debounce allows
Publish(t, orientation, now) ==
    IF orientation # "null" /\ orientation # t.ref /\ DebouncePassed(now, t.logTs)
    THEN [t EXCEPT !.ref = orientation, !.logTs = now,
                   !.store = setOrientation(@, orientation)]
    ELSE t

\* computePalmScore, smoothed by the EMA, published with setPalmScore
Scored(t, scoreRaw) ==
    [t EXCEPT !.ema = EmaUpdate(@, scoreRaw),
              !.store = setPalmScore(@, [has |-> TRUE, value |-> EmaNext(t.ema, scoreRaw)])]

\* the branch of the loop for a detected hand; r is what apply gave: when it threw,
\* the exception leaves the loop before anything else is done
HandBranch(t, raw, handed, nowMs, now, r) ==
    IF r.threw
    THEN [t EXCEPT !.threw = TRUE]
    ELSE Scored(Publish(Stabilized(t, r, raw, handed, nowMs),
                        detectHandOrientation(raw, t.ref, handed), now),
                computePalmScore(raw, handed))

\* the no-hand branch with the orientation left as it is
NoHandBranchOrientationKept(t, nowMs) ==
    [t EXCEPT !.store = setPalmScore(
                            setLandmarks(@, NoLandmarks, "null", NoLandmarks, nowMs),
                            NoScore),
              !.ref = "null",
              !.stab = StabilizerReset(@),
              !.ema = EmaReset(@)]

\* the branch of the loop for no detected hand
NoHandBranch(t, nowMs) ==
    [t EXCEPT !.store = IF t.ref # "null"
                        THEN setOrientation(setPalmScore(
                                 setLandmarks(@, NoLandmarks, "null", NoLandmarks, nowMs),
                                 NoScore), "null")
                        ELSE setPalmScore(
                                 setLandmarks(@, NoLandmarks, "null", NoLandmarks, nowMs),
                                 NoScore),
              !.ref = "null",
              !.stab = StabilizerReset(@),
              !.ema = EmaReset(@)]

\* one run of loop() on the detector's result
LoopBody(t, input, nowMs, now) ==
    IF input.present
    THEN HandBranch(t, input.lms, input.handed, nowMs, now,
                    StabilizerApply(t.stab, input.lms, nowMs))
    ELSE NoHandBranch(t, nowMs)

(***************************************************************************)
(* SpecTracker: the mounted HandTracker processes frames: a hand of 21     *)
(* landmarks, no hand, or a hand with another number of landmarks.         *)
(***************************************************************************)

MaxFrames == 3

\* performance.now() when the loop is first scheduled
LoadedMs == 1000

\* the time detection takes, between the two readings of performance.now()
DetectMs == 4

\* from one run of loop() to the next: an animation frame at 60 Hz, or a stalled tab
FrameGaps == {16, 600}

HandInput(lms, handed) == [present |-> TRUE, lms |-> lms, handed |-> handed]

NoHandInput == [present |-> FALSE, lms |-> NoLandmarks, handed |-> "null"]

\* detected hands with weighted sums 0.8, 0.65 and -0.8 (right hand) and 0.65
\* (left hand, negated to -0.65)
TrackerHands ==
    << HandInput(Hand(HandParams(0, 0, 0 - 1, 0 - 6000, 7500)), "Right"),
       HandInput(Hand(HandParams(20, 0, 0 - 1, 0 - 3000, 3750)), "Right"),
       HandInput(Hand(HandParams(0, 30, 1, 6000, 0 - 7500)), "Right"),
       HandInput(Hand(HandParams(0, 0, 0 - 1, 0 - 3000, 3750)), "Left") >>

MalformedHands ==
    { HandInput(HandOf(HandParams(0, 0, 0 - 1, 0 - 6000, 7500), n), "Right") : n \in BadLengths }

FrameKind(input) ==
    IF ~input.present THEN "nohand"
    ELSE IF Length(input.lms) # NUM_LANDMARKS THEN "malformed" ELSE "hand"

AbsScore(s) == IF s.has THEN Abs(s.value) ELSE 0

\* the scores of the frame: the classifier's weighted sum, the squashed score and
\* the published score; one of them exceeds the palm threshold
AboveThreshold(input, st) ==
    \/ Handed(WeightedSum(input.lms), input.handed) > PALM_THRESHOLD
    \/ computePalmScore(input.lms, input.handed) > PALM_THRESHOLD
    \/ (st.palmScore.has /\ st.palmScore.value > PALM_THRESHOLD)

\* the scores of the frame, squashed and published, are inside the hysteresis band
InBand(input, st) ==
    /\ Abs(computePalmScore(input.lms, input.handed)) < PALM_THRESHOLD
    /\ AbsScore(st.palmScore) < PALM_THRESHOLD

IsLabel(o) == o \in {"palm", "back"}

\* the history after a frame that took the store from pre to post
HistNext(h, input, pre, post, threw, now) ==
    IF threw THEN h
    ELSE IF ~input.present
         THEN [h EXCEPT !.inBand = TRUE, !.inBandSum = TRUE, !.seenAbove = FALSE]
    ELSE [h EXCEPT
             !.lastPub = IF post.orientation # pre.orientation /\ IsLabel(post.orientation)
                         THEN now ELSE @,
             !.inBand = @ /\ InBand(input, post),
             !.inBandSum = @ /\ Abs(WeightedSum(input.lms)) <= PALM_THRESHOLD,
             !.flips = IF IsLabel(pre.orientation) /\ IsLabel(post.orientation)
                          /\ post.orientation # pre.orientation
                       THEN @ + 1 ELSE @,
             !.seenAbove = @ \/ AboveThreshold(input, post)]

\* the state after loop() ended in t2
FrameDone(t2, input, nowMs, now) ==
    /\ stab' = t2.stab
    /\ palmScoreEma' = t2.ema
    /\ lastOrientationRef' = t2.ref
    /\ lastOrientationLogTs' = t2.logTs
    /\ store' = t2.store
    /\ rafPending' = ~t2.threw
    /\ clock' = nowMs
    /\ nCalls' = nCalls + 1
    /\ frame' = [kind |-> FrameKind(input), raw |-> input.lms, handed |-> input.handed,
                 nowMs |-> nowMs, now |-> now, threw |-> t2.threw,
                 preOrientation |-> store.orientation, prevKind |-> frame.kind,
                 prePub |-> hist.lastPub]
    /\ hist' = HistNext(hist, input, store, t2.store, t2.threw, now)
    /\ UNCHANGED <<call, lastOut, sweep, ring, presence, rendered>>

\* the refs and the store, as loop() finds them
TrackerState ==
    [stab |-> stab, ema |-> palmScoreEma, ref |-> lastOrientationRef,
     logTs |-> lastOrientationLogTs, store |-> store, threw |-> FALSE]

\* loop() runs when it is scheduled; an exception leaves it unscheduled
Loop(input, gap) ==
    /\ rafPending
    /\ nCalls < MaxFrames
    /\ FrameDone(LoopBody(TrackerState, input, clock + gap, clock + gap + DetectMs),
                 input, clock + gap, clock + gap + DetectMs)
    /\ UNCHANGED <<ringLog, life>>

FrameHand == \E k \in DOMAIN TrackerHands, gap \in FrameGaps : Loop(TrackerHands[k], gap)

FrameNoHand == \E gap \in FrameGaps : Loop(NoHandInput, gap)

FrameMalformed == \E input \in MalformedHands : Loop(input, 16)

\* mounted: the configure effect has run with the controls' defaults, init() has
\* created the detector and scheduled the loop
Mounted ==
    /\ stab = StabilizerConfigure(LandmarkStabilizer("responsive", NoParams),
                                  "responsive", ControlParams)
    /\ clock = LoadedMs
    /\ nCalls = 0
    /\ call = NoCall
    /\ lastOut = << >>
    /\ palmScoreEma = EmaValue(8000)
    /\ lastOrientationRef = "null"
    /\ lastOrientationLogTs = 0
    /\ store = InitialStore
    /\ rafPending = TRUE
    /\ frame = NoFrame
    /\ hist = NoHist
    /\ SceneConstructed
    /\ life = TrackerLooping

InitTracker == Mounted /\ sweep = NoSweep

NextTracker == FrameHand \/ FrameNoHand \/ FrameMalformed

SpecTracker == InitTracker /\ [][NextTracker]_vars

(***************************************************************************)
(* Properties of the tracker (SpecTracker)                                 *)
(***************************************************************************)

SignLabel(score) == IF score >= 0 THEN "palm" ELSE "back"

\* C3: a frame whose hand does not have exactly 21 landmarks takes the idle/no-hand
\* path: nothing of it reaches the store or the pose state, and all running state
\* is reset.
C3_MalformedFrameTakesIdlePath ==
    frame.kind = "malformed" =>
        /\ store.landmarks = NoLandmarks
        /\ store.landmarksStabilized = NoLandmarks
        /\ store.landmarksRaw = NoLandmarks
        /\ store.palmScore = NoScore
        /\ store.orientation = "null"
        /\ lastOrientationRef = "null"
        /\ ~palmScoreEma.has
        /\ ~IsRunning(stab)

\* what the code does with such a frame: apply throws inside loop(), which is then
\* never scheduled again
MalformedFrameStopsLoop == frame.kind = "malformed" => (frame.threw /\ ~rafPending)

\* C7: while a hand stays tracked and the orientation score stays inside the
\* hysteresis band (magnitude below 0.6), the published label never changes after
\* its initial assignment.
C7_LabelKeptInsideBand ==
    (frame.kind = "hand" /\ hist.inBand /\ IsLabel(frame.preOrientation)) =>
        store.orientation = frame.preOrientation

\* the label is kept while the unsquashed weighted sum stays inside the band
LabelKeptWhileSumInsideBand ==
    (frame.kind = "hand" /\ hist.inBandSum /\ IsLabel(frame.preOrientation)) =>
        store.orientation = frame.preOrientation

\* the orientation the classifier computed on the latest frame
Detected == detectHandOrientation(frame.raw, frame.preOrientation, frame.handed)

\* C9: two label changes are never published within 500 ms of each other; a flip
\* computed inside the window is not published and leaves the published label and
\* the hysteresis reference in force.
C9_FlipsDebounced ==
    frame.kind = "hand" =>
        /\ (IsLabel(store.orientation) /\ store.orientation # frame.preOrientation
               /\ frame.prePub # UNDEF)
           => frame.now - frame.prePub > DEBOUNCE_MS
        /\ (IsLabel(frame.preOrientation) /\ Detected # frame.preOrientation
               /\ frame.now - frame.prePub <= DEBOUNCE_MS)
           => (store.orientation = frame.preOrientation
               /\ lastOrientationRef = frame.preOrientation)

\* a flip computed inside the window
C9_Witness ==
    /\ frame.kind = "hand"
    /\ IsLabel(frame.preOrientation)
    /\ Detected # frame.preOrientation
    /\ frame.now - frame.prePub <= DEBOUNCE_MS
    /\ store.orientation = frame.preOrientation

\* a flip published after the window
C9_WitnessPublished ==
    /\ frame.kind = "hand"
    /\ IsLabel(frame.preOrientation)
    /\ IsLabel(store.orientation)
    /\ store.orientation # frame.preOrientation

\* C10: on the first valid frame after a frame with no hand the stabilized
\* landmarks equal the raw ones, the published palm score equals the frame's raw
\* score, and the label with the sign of that score is published on that frame.
C10_ReacquisitionLikeFreshStart ==
    (frame.kind = "hand" /\ frame.prevKind = "nohand") =>
        /\ store.landmarksStabilized = frame.raw
        /\ store.palmScore = [has |-> TRUE, value |-> computePalmScore(frame.raw, frame.handed)]
        /\ store.orientation = SignLabel(computePalmScore(frame.raw, frame.handed))

\* the part of C10 the code keeps: the stabilizer and the EMA start afresh, and the
\* label is published once 500 ms have passed since the last published label
ReacquisitionResetsFilters ==
    (frame.kind = "hand" /\ frame.prevKind = "nohand") =>
        /\ store.landmarksStabilized = frame.raw
        /\ store.palmScore = [has |-> TRUE, value |-> computePalmScore(frame.raw, frame.handed)]
        /\ (frame.prePub = UNDEF \/ frame.now - frame.prePub > DEBOUNCE_MS)
           => store.orientation = SignLabel(computePalmScore(frame.raw, frame.handed))

(***************************************************************************)
(* SpecSweep: one hand stays tracked for SweepFrames frames while its      *)
(* weighted sum rises linearly from -1 to +1.  The frames come at 120, 60  *)
(* or 30 Hz; the hand is the first the tracker sees, or it appears right   *)
(* after another hand was seen and lost.                                   *)
(***************************************************************************)

SweepFrames == 60

SweepGaps == {8, 16, 33}

\* the number of frames before the sweep: none, or a hand and its loss
SweepPreludes == {0, 2}

\* the weighted sum asked of frame k of the sweep
SweepSum(k) == 0 - SCORE + RDiv(2 * SCORE * k, SweepFrames - 1)

\* a right hand whose palm normal gives 0.5 and whose depths zb = -2u, zt = 2u give
\* 9u more
DepthHand(u) == Hand(HandParams(0, 0, 0 - 1, 0 - 2 * u, 2 * u))

SweepInput(k) == HandInput(DepthHand(RDiv(SweepSum(k) - SCORE \div 2, 9)), "Right")

\* loop() on the input, one frame interval after the latest frame
SweepLoop(input) ==
    /\ rafPending
    /\ FrameDone(LoopBody(TrackerState, input, clock + sweep.gap,
                          clock + sweep.gap + DetectMs),
                 input, clock + sweep.gap, clock + sweep.gap + DetectMs)
    /\ UNCHANGED <<ringLog, life>>

PreludeHand == nCalls = 0 /\ nCalls < sweep.first /\ SweepLoop(TrackerHands[1])

PreludeLoss == nCalls = 1 /\ nCalls < sweep.first /\ SweepLoop(NoHandInput)

SweepFrame ==
    /\ nCalls >= sweep.first
    /\ nCalls < sweep.first + SweepFrames
    /\ SweepLoop(SweepInput(nCalls - sweep.first))

InitSweep ==
    /\ Mounted
    /\ \E gap \in SweepGaps, first \in SweepPreludes : sweep = [gap |-> gap, first |-> first]

NextSweep == PreludeHand \/ PreludeLoss \/ SweepFrame

SpecSweep == InitSweep /\ [][NextSweep]_vars

\* the index of the latest frame within the sweep
SweepIndex == nCalls - 1 - sweep.first

SweepEnded == nCalls = sweep.first + SweepFrames

\* the sweep is what it is meant to be: the weighted sum of every frame is the sum
\* asked for (to 5/SCORE), and it never decreases
SweepIsMonotone ==
    (frame.kind = "hand" /\ SweepIndex >= 0) =>
        /\ Abs(WeightedSum(frame.raw) - SweepSum(SweepIndex)) <= 5
        /\ ~SweepEnded => WeightedSum(frame.raw) <= WeightedSum(SweepInput(SweepIndex + 1).lms)

\* C8: over the sweep the published label flips exactly once, and on no frame
\* earlier than the first frame where the score exceeds +0.6.
C8_SweepFlipsOnceAfterThreshold ==
    /\ hist.flips <= 1
    /\ hist.flips = 1 => hist.seenAbove
    /\ SweepEnded => hist.flips = 1

\* what the code does: a published 'back' flips on the first frame where the
\* unsquashed sum exceeds +0.6 and 500 ms have passed since the last publication
FlipFollowsSumAndDebounce ==
    (frame.kind = "hand" /\ frame.preOrientation = "back") =>
        (store.orientation = "palm"
            <=> (WeightedSum(frame.raw) > PALM_THRESHOLD
                 /\ frame.now - frame.prePub > DEBOUNCE_MS))

(***************************************************************************)
(* SpecRing: the tracker, React and the scene, one animation frame after   *)
(* the other.  In a frame the callbacks of useFrame run (the Ring's, then  *)
(* RingPresence's) on what the components last rendered, the tracker's     *)
(* loop processes the video frame, and React renders what the store and    *)
(* the state updates ask for before the next animation frame.              *)
(***************************************************************************)

MaxRingFrames == 5

\* the time between two animation frames, in ms
RingDeltaMs == 16

\* the hands the detector reports in SpecRing
RingHands == {1, 2, 3}

\* what the Ring's callback reads in this animation frame
RingIn ==
    RingInput(rendered, RingDeltaMs, clock + RingDeltaMs,
              RDiv(presence.scale, MICRO \div FRAC))

\* the Ring's callback on a frame with a hand
RingFrameHand ==
    /\ ringLog.phase = "ring"
    /\ HasHand(RingIn)
    /\ ~AnchorMissing(RingIn)
    /\ ring' = RingUseFrame(ring, RingIn)
    /\ ringLog' = [phase |-> "presence", kind |-> "hand",
                   hands |-> Min(ringLog.hands + 1, 2), lost |-> FALSE,
                   afterLoss |-> ringLog.lost,
                   fresh |-> RingOutput(RingUseFrame(RingConstructed, RingIn)),
                   second |-> IF nCalls = 2 THEN RingOutput(RingUseFrame(ring, RingIn))
                              ELSE ringLog.second]
    /\ UNCHANGED <<stabVars, trackerVars, frame, hist, sweep, presence, rendered, life>>

\* the Ring's callback on a frame whose landmark 13 or 14 is missing
RingFrameSkipped ==
    /\ ringLog.phase = "ring"
    /\ HasHand(RingIn)
    /\ AnchorMissing(RingIn)
    /\ ring' = RingUseFrame(ring, RingIn)
    /\ ringLog' = [ringLog EXCEPT !.phase = "presence", !.kind = "skipped"]
    /\ UNCHANGED <<stabVars, trackerVars, frame, hist, sweep, presence, rendered, life>>

\* the Ring's callback on a frame without landmarks
RingFrameIdle ==
    /\ ringLog.phase = "ring"
    /\ ~HasHand(RingIn)
    /\ ring' = RingUseFrame(ring, RingIn)
    /\ ringLog' = [ringLog EXCEPT !.phase = "presence", !.kind = "idle",
                                  !.lost = ringLog.hands > 0, !.afterLoss = FALSE]
    /\ UNCHANGED <<stabVars, trackerVars, frame, hist, sweep, presence, rendered, life>>

\* RingPresence's callback
PresenceFrame ==
    /\ ringLog.phase = "presence"
    /\ presence' = PresenceUseFrame(presence, RingDeltaMs)
    /\ ringLog' = [ringLog EXCEPT !.phase = "loop"]
    /\ UNCHANGED <<stabVars, trackerVars, frame, hist, sweep, ring, rendered, life>>

\* the tracker's loop on the video frame
RingLoop(input) ==
    /\ ringLog.phase = "loop"
    /\ rafPending
    /\ nCalls < MaxRingFrames
    /\ FrameDone(LoopBody(TrackerState, input, clock + RingDeltaMs,
                          clock + RingDeltaMs + DetectMs),
                 input, clock + RingDeltaMs, clock + RingDeltaMs + DetectMs)
    /\ ringLog' = [ringLog EXCEPT !.phase = "render"]
    /\ UNCHANGED life

RingLoopHand == \E i \in RingHands : RingLoop(TrackerHands[i])

RingLoopNoHand == RingLoop(NoHandInput)

\* React renders App, RingPresence and the Ring from the store and the state updates
Render ==
    /\ ringLog.phase = "render"
    /\ presence' = PresenceRender(presence, ShowRing(store))
    /\ ring' = RingRender(ring, presence)
    /\ rendered' = store
    /\ ringLog' = [ringLog EXCEPT
                       !.phase = IF PresenceRender(presence, ShowRing(store)).mounted
                                 THEN "ring" ELSE "presence",
                       !.kind = IF presence.mounted /\ ~presence.unmount THEN @ ELSE "none"]
    /\ UNCHANGED <<stabVars, trackerVars, frame, hist, sweep, life>>

InitRing == Mounted /\ sweep = NoSweep

NextRing ==
    RingFrameHand \/ RingFrameIdle \/ PresenceFrame \/ RingLoopHand \/ RingLoopNoHand
    \/ Render

SpecRing == InitRing /\ [][NextRing]_vars

MaxLifeFrames == 2

LifeInputs == {NoHandInput, TrackerHands[1]}

\* a step of init() or of the component: the refs and the state it leaves
LifeStep(l) ==
    /\ life' = l
    /\ rafPending' = (l.raf # {})
    /\ UNCHANGED <<stabVars, palmScoreEma, lastOrientationRef, lastOrientationLogTs,
                   store, frameVars>>

Awaits(k, pcs) == life.inits[k].pc \in pcs

FilesetResolved == \E k \in Inits : Awaits(k, {"fileset"}) /\ LifeStep(AfterFileset(life, k))

CreateResolved ==
    \E k \in Inits, available \in BOOLEAN :
        Awaits(k, {"create"}) /\ LifeStep(AfterCreate(life, k, available))

GumResolved == \E k \in Inits : Awaits(k, {"gum"}) /\ LifeStep(AfterGum(life, k))

GumRejected ==
    \E k \in Inits, e \in GumErrors :
        Awaits(k, {"gum"}) /\ LifeStep(AfterGumRejected(life, k, e))

PlayResolved == \E k \in Inits : Awaits(k, {"play"}) /\ LifeStep(AfterPlay(life, k))

\* the wasm fileset, the detector or play() rejects
InitRejected ==
    \E k \in Inits : Awaits(k, {"fileset", "create", "play"}) /\ LifeStep(InitCaught(life, k))

\* an animation frame calls loop() of run k
LifeFrameSkipped ==
    \E k \in life.raf : ~LoopGuard(life) /\ LifeStep(LoopReturned(life, k))

LifeLoop(k, input, t2) ==
    /\ FrameDone(t2, input, clock + 16, clock + 16 + DetectMs)
    /\ life' = LoopProcessed(life, k, t2.threw)
    /\ UNCHANGED ringLog

LifeFrame ==
    \E k \in life.raf, input \in LifeInputs :
        /\ LoopGuard(life)
        /\ nCalls < MaxLifeFrames
        /\ LifeLoop(k, input, LoopBody(TrackerState, input, clock + 16, clock + 16 + DetectMs))

\* the user presses the retry button of the camera error view
Retry ==
    /\ life.mounted
    /\ life.camError # "null"
    /\ CurrentInit(life) < MaxInits
    /\ LifeStep(Retried(life))

Unmount == life.mounted /\ LifeStep(Unmounted(life))

InitLife ==
    /\ stab = StabilizerConfigure(LandmarkStabilizer("responsive", NoParams),
                                  "responsive", ControlParams)
    /\ clock = LoadedMs
    /\ nCalls = 0
    /\ call = NoCall
    /\ lastOut = << >>
    /\ palmScoreEma = EmaValue(8000)
    /\ lastOrientationRef = "null"
    /\ lastOrientationLogTs = 0
    /\ store = InitialStore
    /\ rafPending = FALSE
    /\ frame = NoFrame
    /\ hist = NoHist
    /\ sweep = NoSweep
    /\ SceneConstructed
    /\ life = TrackerInitStarted

NextLife ==
    \/ FilesetResolved \/ CreateResolved \/ GumResolved \/ GumRejected \/ PlayResolved
    \/ InitRejected \/ LifeFrameSkipped \/ LifeFrame \/ Retry \/ Unmount

SpecLife == InitLife /\ [][NextLife]_vars

\* the scheduled flag of the frame specifications is the set of scheduled loops
RafPendingIsScheduled == rafPending = (life.raf # {})

\* no run of init() processes a frame after its cleanup
NoLateFrame == \A k \in Inits : ~life.inits[k].lateFrame

\* C11: once the cleanup of an effect run has run, that run processes no frame and
\* requests no animation frame, whichever await of init() the cleanup came during
C11_NothingAfterTeardown ==
    \A k \in Inits : ~life.inits[k].lateFrame /\ ~life.inits[k].lateRaf

\* C12: at any time at most one frame loop is scheduled, and it is the loop of the
\* current run of the init effect, also after teardown and retry
C12_OneFrameLoop ==
    /\ Cardinality(LoopsRunning(life)) <= 1
    /\ LoopsRunning(life) \subseteq {CurrentInit(life)}

\* a retry happened, and the loop of the new run has processed a frame
C12_LoopAfterRetry ==
    /\ life.retryKey > 0
    /\ LoopsRunning(life) = {CurrentInit(life)}
    /\ life.mounted
    /\ nCalls > 0

\* a failed run of init() has left the error view with its retry button, and no loop
FailureShown(k) ==
    (life.inits[k].failed /\ ~life.inits[k].cancelled)
        => /\ life.camError # "null"
           /\ life.inits[k].pc = "done"
           /\ LoopsRunning(life) = {}

\* the retry clears the error and starts init() again at its first await
RetryRestarts ==
    life'.retryKey # life.retryKey
        => /\ life.camError # "null"
           /\ life'.camError = "null"
           /\ ~life'.ready
           /\ life'.inits[CurrentInit(life')] = [NoInit EXCEPT !.pc = "fileset"]

\* C16: every failure of init() (camera API unavailable, getUserMedia rejected, the
\* fileset, the detector or play() rejected) ends in a non-null camError with no frame
\* loop scheduled, and the retry clears the error and runs init() from the start
C16_FailureEndsInRetryableError ==
    /\ [](\A k \in Inits : FailureShown(k))
    /\ [][RetryRestarts]_vars

\* after a retry, init() failed again and the error view is shown
C16_FailedAgainAfterRetry ==
    /\ life.mounted
    /\ life.retryKey > 0
    /\ life.inits[CurrentInit(life)].failed
    /\ life.camError \in {"unavailable", "denied", "init-failed"}

(***************************************************************************)
(* SpecFist: a closed hand close to the camera, its back to the camera     *)
(***************************************************************************)

\* how far up each joint of a curled finger is from its MCP, in 1/10 of the length
\* of the proximal segment: the PIP above the MCP, the DIP and the tip folded back
FoldedJoints == <<0, 10, 5, 1>>

\* a fist of 21 landmarks, all at the wrist's depth: hp as for HandOf, a the length
\* of the proximal segments on the screen
FistOf(hp, a) ==
    [i \in 0..(NUM_LANDMARKS - 1) |->
        IF i = 0 THEN Vec3(5000 + hp.sx, 8000 + hp.sy, 0)
        ELSE Vec3(5000 + hp.sx + hp.side * (((i - 1) \div 4) - 2) * 600,
                  6000 + hp.sy - RDiv(FoldedJoints[((i - 1) % 4) + 1] * a, 10),
                  0)]

\* the proximal segment of the ring finger over a quarter of the image height
FistSegment == 2500

\* the same fist of a right hand at two places of the image
Fists ==
    << HandInput(FistOf(HandParams(0, 0, 1, 0, 0), FistSegment), "Right"),
       HandInput(FistOf(HandParams(800, 0, 1, 0, 0), FistSegment), "Right") >>

FistLoopHand == \E i \in DOMAIN Fists : RingLoop(Fists[i])

NextFist ==
    RingFrameHand \/ RingFrameIdle \/ PresenceFrame \/ FistLoopHand \/ RingLoopNoHand \/ Render

SpecFist == InitRing /\ [][NextFist]_vars

\* C13: on every frame with a hand the scale applied to the ring's group lies in
\* [SCALE_MIN, SCALE_MAX], also with the closure scale boost of a closed hand
C13_AppliedScaleInRange ==
    ringLog.kind = "hand" => (ring.group.scale >= SCALE_MIN /\ ring.group.scale <= SCALE_MAX)

\* the smoothed target scale itself stays in the range
TargetScaleInRange == ring.targetScale >= SCALE_MIN /\ ring.targetScale <= SCALE_MAX

(***************************************************************************)
(* SpecRoll: a flat hand whose fingers point to the side                   *)
(***************************************************************************)

\* a flat hand of 21 landmarks laid out as HandOf lays it, turned about the wrist:
\* (dx, dy) is the step from one joint of a finger to the next, of length 700
TurnedOf(hp, dx, dy) ==
    [i \in 0..(NUM_LANDMARKS - 1) |->
        IF i = 0 THEN Vec3(3000 + hp.sx, 5000 + hp.sy, 0)
        ELSE Vec3(3000 + hp.sx
                    + RDiv(hp.side * (((i - 1) \div 4) - 2) * 600 * (0 - dy)
                           + (2000 + 700 * ((i - 1) % 4)) * dx, 700),
                  5000 + hp.sy
                    + RDiv(hp.side * (((i - 1) \div 4) - 2) * 600 * dx
                           + (2000 + 700 * ((i - 1) % 4)) * dy, 700),
                  0)]

\* the fingers point to the right of the image and 37 degrees up, at two places, and
\* to the right and 8 degrees down: 45 degrees apart, across the angle pi of atan2
TurnedHands ==
    << HandInput(TurnedOf(HandParams(0, 0, 1, 0, 0), 560, 0 - 420), "Right"),
       HandInput(TurnedOf(HandParams(800, 0, 1, 0, 0), 560, 0 - 420), "Right"),
       HandInput(TurnedOf(HandParams(0, 0, 1, 0, 0), 693, 99), "Right") >>

RollLoopHand == \E i \in DOMAIN TurnedHands : RingLoop(TurnedHands[i])

NextRoll ==
    RingFrameHand \/ RingFrameIdle \/ PresenceFrame \/ RollLoopHand \/ RingLoopNoHand \/ Render

SpecRoll == InitRing /\ [][NextRoll]_vars

\* C14: the wrapped difference the Ring's frame is about to step by has magnitude at
\* most pi, for the current angle and the target angle of every frame with a hand
C14_RollTakesShortestPath ==
    (ringLog.phase = "ring" /\ HasHand(RingIn))
        => Abs(AngleDiff(TargetAngle(RingIn), ring.viewAxisAngle)) <= PI_RAD

(***************************************************************************)
(* SpecHoles: the store holds a detection whose landmark array has holes   *)
(***************************************************************************)

\* frames of a behaviour
MaxHoleFrames == 4

\* the landmark array with entry i missing
WithHole(lms, i) == [lms EXCEPT ![i] = NoPoint]

\* the raw landmark arrays of the detections: whole, or without 13, 14 or both
HoleLandmarks ==
    { TrackerHands[1].lms, TrackerHands[2].lms,
      WithHole(TrackerHands[1].lms, 13), WithHole(TrackerHands[2].lms, 14),
      WithHole(WithHole(TrackerHands[1].lms, 13), 14) }

\* the store after the loop has published the detection at time ts
Published(lms, ts) ==
    setPalmScore(setOrientation(setLandmarks(InitialStore, lms, "Right", lms, ts), "palm"),
                 [has |-> TRUE, value |-> 60000])

\* the loop publishes a detection
HoleLoop ==
    /\ ringLog.phase = "loop"
    /\ nCalls < MaxHoleFrames
    /\ \E lms \in HoleLandmarks : store' = Published(lms, clock + RingDeltaMs)
    /\ clock' = clock + RingDeltaMs
    /\ nCalls' = nCalls + 1
    /\ ringLog' = [ringLog EXCEPT !.phase = "render"]
    /\ UNCHANGED <<stab, call, lastOut, palmScoreEma, lastOrientationRef,
                   lastOrientationLogTs, rafPending, frame, hist, sweep, ring, presence,
                   rendered, life>>

NextHoles == RingFrameHand \/ RingFrameSkipped \/ PresenceFrame \/ HoleLoop \/ Render

SpecHoles == InitRing /\ [][NextHoles]_vars

\* the frame the Ring's callback is about to run lacks landmark 13 or 14
SkippedFrame == ringLog.phase = "ring" /\ HasHand(RingIn) /\ AnchorMissing(RingIn)

\* C15: when landmark 13 or 14 is missing in a frame, the Ring's callback changes
\* neither its running state (anchor flags, smoothed values, velocity) nor the
\* transform of its groups: no default position is substituted
C15_MissingAnchorChangesNothing == [][SkippedFrame => ring' = ring]_vars

\* a frame without landmark 13 or 14 has been skipped by a Ring that had followed a
\* hand before
C15_SkippedAfterHand ==
    /\ ringLog.kind = "skipped"
    /\ ringLog.phase = "presence"
    /\ ring.anchorInitialized
    /\ ring.group.position # ZeroVec

\* smoothingAttenuation as the depth alpha reads it: the screen-space attenuation of
\* the raw anchor's movement
DepthAttenuation(r, in) == Anchored(r, in).att

\* smoothingAttenuation as the alphas after the anchor velocity read it (position,
\* finger diameter, scale, roll, closure, tilt)
FrameAttenuation(r, in) == AnchorVelocity(Placed(Anchored(r, in), in), in).att

\* a frame with a hand is about to run
HandFrame == ringLog.phase = "ring" /\ HasHand(RingIn) /\ ~AnchorMissing(RingIn)

\* the later channels read the minimum of the screen-space attenuation and the
\* world-speed attenuation of the frame
LaterChannelsReadMinimum ==
    HandFrame =>
        FrameAttenuation(ring, RingIn)
            = Min(DepthAttenuation(ring, RingIn),
                  IF ring.anchorInitialized
                     /\ AnchorVelocity(Placed(Anchored(ring, RingIn), RingIn), RingIn).r.anchorVelocity # ZeroVec
                  THEN WorldAttenuation(AnchorVelocity(Placed(Anchored(ring, RingIn), RingIn), RingIn).r.anchorVelocity)
                  ELSE FRAC)

\* C17: in every frame with a hand every channel's alpha is computed from one
\* attenuation value, the minimum of the screen-space and the world-speed attenuation
C17_OneAttenuationForAllChannels ==
    HandFrame => DepthAttenuation(ring, RingIn) = FrameAttenuation(ring, RingIn)

(***************************************************************************)
(* SpecJump: a hand that jumps by 0.05 of the image between two frames     *)
(***************************************************************************)

\* the same flat hand at three places: 0.05 to the right, 0.05 along (3, 4)
JumpHands ==
    << HandInput(Hand(HandParams(0, 0, 0 - 1, 0, 0)), "Right"),
       HandInput(Hand(HandParams(500, 0, 0 - 1, 0, 0)), "Right"),
       HandInput(Hand(HandParams(300, 400, 0 - 1, 0, 0)), "Right") >>

JumpLoopHand == \E i \in DOMAIN JumpHands : RingLoop(JumpHands[i])

NextJump ==
    RingFrameHand \/ RingFrameIdle \/ PresenceFrame \/ JumpLoopHand \/ RingLoopNoHand \/ Render

SpecJump == InitRing /\ [][NextJump]_vars

\* rawDelta of the frame: how far the raw anchor is from the previous frame's
RawDelta(r, in) == RawAnchor(RingWork(r), AnchorOf(in.lms)).r.anchorMotionMagnitude

\* the frame about to run has a hand whose landmarks 13 and 14, and with them the raw
\* anchor, are 0.05 away from the previous frame's
JumpFrame == HandFrame /\ ring.rawAnchorInitialized /\ RawDelta(ring, RingIn) = 500

\* from old, new is at least 60% of the way to target (along the line to target)
SixtyPercent(old, new, target) ==
    10 * ((new.x - old.x) * (target.x - old.x) + (new.y - old.y) * (target.y - old.y))
        >= 6 * ((target.x - old.x) * (target.x - old.x)
                + (target.y - old.y) * (target.y - old.y))

\* the same for points of the world
SixtyPercentOf(step, way) ==
    10 * (step.x * way.x + step.y * way.y + step.z * way.z)
        >= 6 * (way.x * way.x + way.y * way.y + way.z * way.z)

\* where the raw anchor of the frame is in the world, at the frame's distance
RawWorld(r, in) == Placed([Anchored(r, in) EXCEPT !.anchor = AnchorOf(in.lms)], in).r.pos

\* smoothedPosition as the frame leaves it
NewPosition(r, in) ==
    Positioned(AnchorVelocity(Placed(Anchored(r, in), in), in), in).r.smoothedPosition

\* C18: when landmarks 13 and 14 jump by 0.05 between two consecutive frames, the
\* motion attenuation of the frame is below 0.7 and the anchor moves at least 60% of
\* the way from its previous value to the new raw anchor within the frame, on the
\* screen (the micro anchor) and in the world (smoothedPosition)
C18_JumpRelaxesSmoothing ==
    JumpFrame =>
        /\ DepthAttenuation(ring, RingIn) < 7000
        /\ FrameAttenuation(ring, RingIn) < 7000
        /\ SixtyPercent(ring.microAnchorNorm, Anchored(ring, RingIn).anchor,
                        AnchorOf(RingIn.lms))
        /\ SixtyPercentOf(VecSub(NewPosition(ring, RingIn), ring.smoothedPosition),
                          VecSub(RawWorld(ring, RingIn), ring.smoothedPosition))

\* a frame with such a jump has run: the raw anchor moved by 0.05 in it
C18_JumpHappened ==
    /\ ringLog.kind = "hand"
    /\ ringLog.phase = "presence"
    /\ ring.anchorMotionMagnitude = 500

(***************************************************************************)
(* SpecStatic: a hand that does not move.  From the freshly mounted page   *)
(* the detector reports the same landmarks on every frame, at 60 Hz.       *)
(***************************************************************************)

StaticFrames == 30

\* a flat hand, a hand leaning toward the camera and one leaning away from it
StaticHands ==
    << HandInput(Hand(HandParams(0, 0, 0 - 1, 0, 0)), "Right"),
       TrackerHands[1],
       TrackerHands[3] >>

\* the tracker's loop: the first frame chooses the hand, the later frames repeat it
StaticLoop(input) ==
    /\ ringLog.phase = "loop"
    /\ rafPending
    /\ nCalls < StaticFrames
    /\ nCalls = 0 \/ frame.raw = input.lms
    /\ FrameDone(LoopBody(TrackerState, input, clock + RingDeltaMs,
                          clock + RingDeltaMs + DetectMs),
                 input, clock + RingDeltaMs, clock + RingDeltaMs + DetectMs)
    /\ ringLog' = [ringLog EXCEPT !.phase = "render"]
    /\ UNCHANGED life

StaticLoopHand == \E i \in DOMAIN StaticHands : StaticLoop(StaticHands[i])

NextStatic == RingFrameHand \/ PresenceFrame \/ StaticLoopHand \/ Render

SpecStatic == InitRing /\ [][NextStatic]_vars

\* the Ring has run on frame k of the static hand
StaticFrame(k) == ringLog.kind = "hand" /\ ringLog.phase = "presence" /\ nCalls = k

\* b differs from a by less than 0.1% of a
WithinPerMille(a, b) == 1000 * Abs(b - a) < Abs(a)

\* the point q differs from the point p by less than 0.1% of p (sums of the absolute
\* coordinates)
PointWithinPerMille(p, q) ==
    1000 * (Abs(q.x - p.x) + Abs(q.y - p.y) + Abs(q.z - p.z))
        < Abs(p.x) + Abs(p.y) + Abs(p.z)

\* C19: for a static hand, from a fresh pipeline, the scale and the position of the
\* ring at frame 30 differ from their values at frame 2 by less than 0.1%
C19_StaticHandSettled ==
    StaticFrame(StaticFrames) =>
        /\ WithinPerMille(ringLog.second.scale, ring.group.scale)
        /\ PointWithinPerMille(ringLog.second.position, ring.group.position)

\* the position alone is settled when the hand is at the base distance (landmark 13
\* at z = 0)
StaticPositionSettledWhenFlat ==
    (StaticFrame(StaticFrames) /\ frame.raw[13].z = 0) =>
        PointWithinPerMille(ringLog.second.position, ring.group.position)

(***************************************************************************)
(* SpecDrift: a caller drives one LandmarkStabilizer, configured from the  *)
(* sliders, with a hand that moves by less than the dead zone from each    *)
(* frame to the next: on a line, or to and fro about where it started.     *)
(***************************************************************************)

DriftFrames == 30

\* the bound on the drift, in dead zones
DriftMultiple == 10

\* the hand of the first frame
DriftBase == Hand(HandParams(0, 0, 1, 0, 0))

\* the displacements of a frame, each shorter than the dead zone of SliderParams
DriftSteps ==
    { Vec3(9, 0, 0), Vec3(0 - 9, 0, 0), Vec3(0, 9, 0), Vec3(5, 5, 0), Vec3(3, 0, 0),
      Vec3(0 - 6, 6, 0) }

\* the landmarks moved by k times d
ShiftHand(lms, d, k) == [i \in DOMAIN lms |-> VecAdd(lms[i], Vec3(k * d.x, k * d.y, k * d.z))]

\* the trajectories: the hand moves by d on every frame (a ramp), or by d and back by
\* two thirds of it, to and fro (a tremor)
Trajectories == { [kind |-> kind, d |-> d] : kind \in {"ramp", "tremor"}, d \in DriftSteps }

\* the hand of frame k (from 0) of the trajectory t
PointOf(t, k) ==
    IF t.kind = "ramp" THEN ShiftHand(DriftBase, t.d, k)
    ELSE IF k = 0 THEN DriftBase
    ELSE IF k % 2 = 1 THEN ShiftHand(DriftBase, t.d, 1)
    ELSE ShiftHand(DriftBase, Vec3(t.d.x \div 3, t.d.y \div 3, t.d.z \div 3), 1)

\* the displacement between consecutive inputs stays strictly below the dead zone
BelowDeadZone(s, from, to) ==
    \A i \in DOMAIN to : MagSq(VecSub(to[i], from[i])) < s.filters[i].deadZone * s.filters[i].deadZone

\* apply(landmarks, timestamp) with result r, on frame nCalls + 1 of the trajectory
DriftApplied(landmarks, timestamp, r) ==
    /\ nCalls < DriftFrames
    /\ stab' = r.s
    /\ clock' = timestamp
    /\ nCalls' = nCalls + 1
    /\ call' = [NoCall EXCEPT !.op = "apply", !.pre = stab, !.landmarks = landmarks,
                              !.timestamp = timestamp, !.threw = r.threw,
                              !.out = r.out, !.prevOut = lastOut]
    /\ lastOut' = r.out
    /\ UNCHANGED <<trackerVars, frameVars, life>>

DriftApply(landmarks) ==
    DriftApplied(landmarks, clock + RingDeltaMs,
                 StabilizerApply(stab, landmarks, clock + RingDeltaMs))

\* the first frame of the trajectory
DriftFirst ==
    /\ nCalls = 0
    /\ DriftApply(DriftBase)

\* a later frame: the next hand of a trajectory the frames so far belong to, less than
\* a dead zone from the last one
DriftNext ==
    \E t \in Trajectories :
        /\ nCalls > 0
        /\ call.landmarks = PointOf(t, nCalls - 1)
        /\ BelowDeadZone(stab, call.landmarks, PointOf(t, nCalls))
        /\ DriftApply(PointOf(t, nCalls))

\* the stabilizer as HandTracker's effect configures it after a move of the sliders
InitDrift ==
    /\ stab = StabilizerConfigure(LandmarkStabilizer("responsive", NoParams),
                                  "responsive", SliderParams)
    /\ clock = 1000
    /\ nCalls = 0
    /\ call = NoCall
    /\ lastOut = << >>
    /\ TrackerConstructed
    /\ life = TrackerRendered

NextDrift == DriftFirst \/ DriftNext

SpecDrift == InitDrift /\ [][NextDrift]_vars

\* the distance of landmark i from where the filtered output started is at most m
\* dead zones
DriftWithin(i, m) ==
    MagSq(VecSub(lastOut[i], DriftBase[i]))
        <= (m * stab.filters[i].deadZone) * (m * stab.filters[i].deadZone)

\* C20: on a trajectory whose displacement between consecutive inputs stays strictly
\* below deadZone, the filtered output of update drifts by no more than a small fixed
\* multiple of deadZone from where it started, however many frames the trajectory has
C20_DriftBoundedByDeadZone ==
    call.op = "apply" => \A i \in DOMAIN lastOut : DriftWithin(i, DriftMultiple)

\* a frame update handles in its dead-zone branch
InDeadZone(i) ==
    /\ call.op = "apply"
    /\ call.pre.filters[i].hasPrev
    /\ MagSq(VecSub(call.landmarks[i], call.pre.filters[i].prev))
           < call.pre.filters[i].deadZone * call.pre.filters[i].deadZone

\* what holds instead: while the inputs stay within the dead zone of the point the
\* filter holds (prev), each coordinate of the output stays within the dead zone of it
HeldPointContainment ==
    \A i \in DOMAIN lastOut :
        InDeadZone(i) =>
            /\ Abs(lastOut[i].x - call.pre.filters[i].prev.x) < stab.filters[i].deadZone
            /\ Abs(lastOut[i].y - call.pre.filters[i].prev.y) < stab.filters[i].deadZone
            /\ Abs(lastOut[i].z - call.pre.filters[i].prev.z) < stab.filters[i].deadZone

(***************************************************************************)
(* The orientation transition                                              *)
(***************************************************************************)

\* targetTransition of the frame
TargetTransition(in) == calculateOrientationTransition(in.orientation, in.palmScore, SCORE_EPS)

\* the value the label alone stands for: 1 for back, 0 for palm
LabelTarget(orientation) == IF orientation = "back" THEN FRAC ELSE 0

\* C21: the target of the orientation-transition scalar is given by the label alone,
\* 1 for back and 0 for palm, whatever the palm score is
C21_TargetFromLabelAlone ==
    (HandFrame /\ RingIn.orientation \in {"back", "palm"})
        => TargetTransition(RingIn) = LabelTarget(RingIn.orientation)

(***************************************************************************)
(* SpecGrip: a closed hand shown from either side                          *)
(***************************************************************************)

\* the fist of a right hand with its back to the camera, and with its palm to it
Grips ==
    << Fists[1],
       HandInput(FistOf(HandParams(0, 0, 0 - 1, 0, 0), FistSegment), "Right"),
       HandInput(FistOf(HandParams(800, 0, 0 - 1, 0, 0), FistSegment), "Right") >>

GripLoopHand == \E i \in DOMAIN Grips : RingLoop(Grips[i])

NextGrip ==
    RingFrameHand \/ RingFrameIdle \/ PresenceFrame \/ GripLoopHand \/ RingLoopNoHand \/ Render

SpecGrip == InitRing /\ [][NextGrip]_vars

\* the Ring's frame on a hand whose label is not "back" leaves the scale at targetScale,
\* the Z offset at positionOffsetZ and moves the Z rotation toward rotationOffsetZ
NoClosureInFrame ==
    (HandFrame /\ RingIn.orientation # "back") =>
        /\ ring'.group.scale = ring'.targetScale
        /\ ring'.userRotationGroup.position.z = RingControls.positionOffsetZ
        /\ ring'.userRotationGroup.rotation.z
               = lerp(ring.prevRotation.z, degToRad(RingControls.rotationOffsetZ),
                      ExpAlpha(15 * FRAC, RingIn.delta))

\* C22: in every frame whose orientation label is not "back" the hand closure adds
\* nothing: the closure scale multiplier is 1 and the closure offsets of the rotation
\* target and of the position are 0
C22_ClosureOnlyForBack == [][NoClosureInFrame]_vars

\* the Ring has run on a closed hand that shows its palm
C22_ClosedPalmFrame ==
    /\ ringLog.kind = "hand"
    /\ ringLog.phase = "presence"
    /\ rendered.orientation = "palm"
    /\ ring.smoothedHandClosure > 1000

(***************************************************************************)
(* The unit of the timestamps                                              *)
(***************************************************************************)

\* performance.now() counts milliseconds: this many to the second
MsPerSecond == 1000

\* the frame loop has just passed its timestamp to apply, and apply returned
StabilizedFrame == frame.kind = "hand" /\ ~frame.threw

\* C23: every timestamp the frame loop passes to LandmarkStabilizer.apply, and so to
\* the update of each filter, is in seconds: times the milliseconds of a second, it is
\* the reading of performance.now() of the frame
C23_TimestampsInSeconds ==
    StabilizedFrame =>
        \A i \in DOMAIN stab.filters :
            stab.filters[i].lastTimestamp * MsPerSecond = frame.nowMs

\* the filters receive the reading of performance.now() itself
TimestampsInMilliseconds ==
    StabilizedFrame =>
        \A i \in DOMAIN stab.filters : stab.filters[i].lastTimestamp = frame.nowMs

(***************************************************************************)
(* SpecEuro: a caller drives one OneEuroFilter, the filter of the x        *)
(* coordinate of the wrist, with values and timestamps in any order.       *)
(***************************************************************************)

MaxEuroCalls == 3

\* the values passed, in 1/POS
EuroValues == {0, 4000, 5000, 9000}

\* timestamp steps: back in time, a repeated timestamp, one and two frames at 60 Hz
EuroSteps == {0 - 16, 0, 16, 33}

\* the filter under the calls
EuroFilter(s) == s.filters[0].oneEuroX

\* update(value, timestamp) on the filter
EuroUpdate ==
    \E value \in EuroValues, step \in EuroSteps :
        /\ nCalls < MaxEuroCalls
        /\ stab' = [stab EXCEPT !.filters[0].oneEuroX =
                                    OneEuroUpdate(@, value, clock + step).e]
        /\ clock' = clock + step
        /\ nCalls' = nCalls + 1
        /\ call' = [NoCall EXCEPT !.op = "update", !.pre = stab,
                                  !.landmarks = <<value>>, !.timestamp = clock + step,
                                  !.out = <<OneEuroUpdate(EuroFilter(stab), value,
                                                          clock + step).out>>]
        /\ UNCHANGED <<lastOut, trackerVars, frameVars, life>>

\* reset() on the filter
EuroReset ==
    /\ nCalls < MaxEuroCalls
    /\ stab' = [stab EXCEPT !.filters[0].oneEuroX = OneEuroReset(@)]
    /\ nCalls' = nCalls + 1
    /\ call' = [NoCall EXCEPT !.op = "reset", !.pre = stab]
    /\ UNCHANGED <<clock, lastOut, trackerVars, frameVars, life>>

NextEuro == EuroUpdate \/ EuroReset

SpecEuro == InitStab /\ [][NextEuro]_vars

\* update was called on a filter that holds a value, with a timestamp not after the
\* last one
EuroCallNotAfter ==
    /\ call.op = "update"
    /\ EuroFilter(call.pre).has
    /\ call.timestamp - EuroFilter(call.pre).lastTime <= 0

\* C24: OneEuroFilter.update with dt <= 0 returns the last stored filtered value and
\* leaves the stored value, the derivative estimate and the last timestamp as they were
C24_NotAfterReturnsStored ==
    EuroCallNotAfter =>
        /\ call.out = <<EuroFilter(call.pre).x>>
        /\ EuroFilter(stab) = EuroFilter(call.pre)

\* such a call was made with an earlier timestamp and a value other than the stored one
C24_EarlierTimestampPassed ==
    /\ EuroCallNotAfter
    /\ call.timestamp < EuroFilter(call.pre).lastTime
    /\ call.landmarks # <<EuroFilter(call.pre).x>>
    /\ EuroFilter(call.pre).dx # 0

(***************************************************************************)
(* SpecStore: callers set the landmarks and the blend factor of the store  *)
(* in any order.                                                           *)
(***************************************************************************)

MaxStoreCalls == 3

\* the sets a caller passes: null, or the 21 landmarks of a hand
StoreHands ==
    { NoLandmarks,
      Hand(HandParams(0, 0, 1, 0, 0)),
      Hand(HandParams(400, 300, 1, 0 - 300, 600)) }

\* the factors a caller passes: below the range, its ends, inside it, above it
StoreBlends == {0 - 5000, 0, 3000, 7500, FRAC, 15000}

\* setLandmarks(landmarks, handedness, raw, timestampMs)
StoreSetLandmarks ==
    \E landmarks \in StoreHands, raw \in StoreHands :
        /\ nCalls < MaxStoreCalls
        /\ store' = setLandmarks(store, landmarks, "Right", raw, clock + RingDeltaMs)
        /\ clock' = clock + RingDeltaMs
        /\ nCalls' = nCalls + 1
        /\ call' = [NoCall EXCEPT !.op = "setLandmarks"]
        /\ UNCHANGED <<stab, lastOut, palmScoreEma, lastOrientationRef,
                       lastOrientationLogTs, rafPending, frameVars, life>>

\* setLandmarkBlend(blend)
StoreSetLandmarkBlend ==
    \E blend \in StoreBlends :
        /\ nCalls < MaxStoreCalls
        /\ store' = setLandmarkBlend(store, blend)
        /\ nCalls' = nCalls + 1
        /\ call' = [NoCall EXCEPT !.op = "setLandmarkBlend"]
        /\ UNCHANGED <<stab, clock, lastOut, palmScoreEma, lastOrientationRef,
                       lastOrientationLogTs, rafPending, frameVars, life>>

NextStore == StoreSetLandmarks \/ StoreSetLandmarkBlend

SpecStore == InitStab /\ [][NextStore]_vars

\* the interpolation of two sets at a factor, coordinate by coordinate
Interpolated(raw, stabilized, blend) ==
    [i \in DOMAIN stabilized |->
        Vec3(raw[i].x + MulDiv(stabilized[i].x - raw[i].x, blend, FRAC),
             raw[i].y + MulDiv(stabilized[i].y - raw[i].y, blend, FRAC),
             raw[i].z + MulDiv(stabilized[i].z - raw[i].z, blend, FRAC))]

\* the blend of the stored sets at the stored factor
BlendOfStored(st) ==
    IF st.landmarksRaw = NoLandmarks /\ st.landmarksStabilized = NoLandmarks THEN NoLandmarks
    ELSE IF st.landmarksStabilized = NoLandmarks THEN st.landmarksRaw
    ELSE IF st.landmarksRaw = NoLandmarks THEN st.landmarksStabilized
    ELSE IF st.landmarkBlend = 0 THEN st.landmarksRaw
    ELSE IF st.landmarkBlend = FRAC THEN st.landmarksStabilized
    ELSE Interpolated(st.landmarksRaw, st.landmarksStabilized, st.landmarkBlend)

\* the factor is in [0, 1] and the landmarks are the blend of the stored sets
StoreBlendConsistent ==
    /\ store.landmarkBlend >= 0
    /\ store.landmarkBlend <= FRAC
    /\ store.landmarks = BlendOfStored(store)
    /\ store.landmarks = NoLandmarks
           <=> (store.landmarksRaw = NoLandmarks /\ store.landmarksStabilized = NoLandmarks)

\* setLandmarkBlend leaves the raw and the stabilized set as they were
BlendKeepsSets ==
    call'.op = "setLandmarkBlend" =>
        /\ store'.landmarksRaw = store.landmarksRaw
        /\ store'.landmarksStabilized = store.landmarksStabilized

\* C25: after any sequence of setLandmarks and setLandmarkBlend calls landmarkBlend is
\* in [0,1] and the landmarks are the blend of the stored raw and stabilized sets at
\* that factor, null exactly when both are null; setLandmarkBlend changes neither set
C25_LandmarksAreTheBlend == []StoreBlendConsistent /\ [][BlendKeepsSets]_vars

\* the factor was set inside the range while two different sets were stored
C25_BlendSetBetweenTwoSets ==
    /\ call.op = "setLandmarkBlend"
    /\ store.landmarkBlend = 3000
    /\ store.landmarksRaw # NoLandmarks
    /\ store.landmarksStabilized # NoLandmarks
    /\ store.landmarksRaw # store.landmarksStabilized
    /\ store.landmarks # store.landmarksRaw

(***************************************************************************)
(* The frame loop keeps itself going                                       *)
(***************************************************************************)

\* an iteration of the frame loop was executed
LoopExecuted == frame.kind # "none"

\* C26: while the detector and the video element are alive, every executed iteration of
\* the frame loop ends by requesting the next animation frame, whatever the detection
\* of the frame is
C26_IterationRequestsNextFrame == LoopExecuted => rafPending

\* the iterations that return do request the next frame
ReturnedIterationRequestsNextFrame == (LoopExecuted /\ ~frame.threw) => rafPending

(***************************************************************************)
(* What a torn-down tracker leaves open                                    *)
(***************************************************************************)

\* the tracker is unmounted and no run of init() is still awaiting
TornDown(l) == ~l.mounted /\ \A k \in Inits : l.inits[k].pc \in {"idle", "done"}

\* a media stream of some run has live tracks
StreamOpen(l) == \E k \in Inits : l.inits[k].stream = "live"

\* a detector is held, not closed
DetectorOpen(l) == l.landmarkerRef # 0

\* C27: once the tracker has been torn down, every media stream an initialisation run
\* obtained is stopped and every detector it created is closed, whichever await the
\* teardown interleaved with
C27_NothingOpenAfterTeardown == TornDown(life) => (~StreamOpen(life) /\ ~DetectorOpen(life))

(***************************************************************************)
(* RingPresence against the animation frames, the tracker's loop and       *)
(* React's renders, in any order                                           *)
(***************************************************************************)

MaxPresenceFrames == 3

\* 1 - Math.pow(0.0001, delta) on an animation frame of RingDeltaMs
TickAlpha == PresenceAlpha(RingDeltaMs)

\* RingPresence's callback on an animation frame, whatever else ran since the last one
PresenceTick ==
    /\ presence' = PresenceLerp(presence, TickAlpha)
    /\ UNCHANGED <<stabVars, trackerVars, frame, hist, sweep, ring, rendered, ringLog, life>>

\* the tracker's loop on a video frame, whatever the animation frames and React did
PresenceLoop(input) ==
    /\ rafPending
    /\ nCalls < MaxPresenceFrames
    /\ FrameDone(LoopBody(TrackerState, input, clock + RingDeltaMs,
                          clock + RingDeltaMs + DetectMs),
                 input, clock + RingDeltaMs, clock + RingDeltaMs + DetectMs)
    /\ UNCHANGED <<ringLog, life>>

PresenceLoopHand == PresenceLoop(TrackerHands[1])

PresenceLoopNoHand == PresenceLoop(NoHandInput)

\* React processes what is pending: the new showRing of App, a setMounted(false) of the
\* callback, the effect on [show].  ringLog.phase keeps whether this render had both a
\* pending setMounted(false) and a show that is true again
PresenceReact ==
    /\ presence' = PresenceRender(presence, ShowRing(store))
    /\ ring' = RingRender(ring, presence)
    /\ rendered' = store
    /\ ringLog' = [ringLog EXCEPT
                       !.phase = IF presence.unmount /\ ShowRing(store) THEN "raced"
                                 ELSE "render"]
    /\ UNCHANGED <<stabVars, trackerVars, frame, hist, sweep, life>>

NextPresence == PresenceTick \/ PresenceLoopHand \/ PresenceLoopNoHand \/ PresenceReact

\* animation frames keep coming and React processes every update it was given; the
\* video frames stop after MaxPresenceFrames, and show stays what it is from then on
SpecPresence ==
    InitRing /\ [][NextPresence]_vars /\ WF_vars(PresenceTick) /\ WF_vars(PresenceReact)

\* React has nothing left to process: App rendered the store as it is and no
\* setMounted(false) is pending
PresenceProcessed == rendered = store /\ ~presence.unmount

ShownIsMounted == PresenceProcessed /\ ShowRing(store) => presence.mounted

\* a step that takes a pending setMounted(false) into a render whose show is true
UnmountRaceKeepsRing == presence.unmount /\ presence'.show => presence'.mounted

\* C28: whenever show is true once React has processed the pending updates and effects,
\* the Ring is mounted; a setMounted(false) that the frame callback called while show
\* was false does not leave the Ring unmounted when the render that processes it has
\* show true again; and while show stays false the Ring is eventually unmounted
C28_ShownRingIsMounted ==
    /\ []ShownIsMounted
    /\ [][UnmountRaceKeepsRing]_vars
    /\ (~ShowRing(store)) ~> (ShowRing(store) \/ (~presence.mounted /\ ~presence.unmount))

\* the hand came back between the callback's setMounted(false) and React's render, and
\* the Ring is mounted after that render
C28_RenderAfterRace ==
    /\ ringLog.phase = "raced"
    /\ PresenceProcessed
    /\ ShowRing(store)
    /\ presence.mounted

\* C29: at the end of every iteration of the loop, a store whose landmarks are null
\* has null landmarksRaw, landmarksStabilized, landmarksUpdatedAt, handedness,
\* palmScore and orientation
C29_NullLandmarksNullRest ==
    LoopExecuted /\ store.landmarks = NoLandmarks
    => /\ store.landmarksRaw = NoLandmarks
       /\ store.landmarksStabilized = NoLandmarks
       /\ store.landmarksUpdatedAt = UNDEF
       /\ store.handedness = "null"
       /\ store.palmScore = NoScore
       /\ store.orientation = "null"

\* the hand was lost after its orientation, its score and its handedness were published
C29_HandLostAfterPublishing ==
    /\ frame.kind = "nohand"
    /\ frame.preOrientation # "null"
    /\ store.landmarks = NoLandmarks

\* C30: the smoothed camera-to-ring distance, which places the anchor on the view ray
\* and sizes the ring, is strictly positive on every frame, whatever the depth z of
\* landmark 13 is
C30_SmoothedDistancePositive == ring.smoothedDistance > 0

\* what the lerp towards BASE_DISTANCE + clamp(z, -0.6, 0.6) * DEPTH_RANGE keeps: the
\* smoothed distance is between the lowest and the highest target
SmoothedDistanceWithinTargets ==
    /\ ring.smoothedDistance >= TargetDistance(0 - 6000)
    /\ ring.smoothedDistance <= TargetDistance(6000)

====
